---- MODULE Spec2Model ----
(***************************************************************************)
(* Relational storage layer of honesty-chat: the PostgreSQL and the MySQL  *)
(* entity stores (Lead, ChatSession, Event, User), the statements they     *)
(* issue, and the MySQL connection pool their statements run through.      *)
(*                                                                         *)
(* Two specifications share the variables:                                 *)
(*   Spec      one caller; every store call is one step (the handler from  *)
(*             its first statement to its return).                         *)
(*   SpecConc  several callers of the MySQL/PostgreSQL create operations,  *)
(*             one step per statement, each statement on a pooled          *)
(*             connection.                                                 *)
(***************************************************************************)
EXTENDS Integers, Sequences, FiniteSets, TLC

(***************************************************************************)
(* Bounds of the model.                                                    *)
(***************************************************************************)
\* rows ever inserted, all tables together
MaxCreates == 2
\* last value of the database clock (CURRENT_TIMESTAMP)
MaxTime == 1
\* concurrent callers of SpecConc
NumCallers == 2
\* connections the modelled pool may open (the program's connectionLimit is 20)
MaxConns == 2

\* pools one process may create (connect after close creates another)
MaxPools == 3

\* segments of a schema text
MaxSegments == 3

(***************************************************************************)
(* JavaScript values.  Every value is a record [t, n, s]: t the type tag,  *)
(* n the number of a "number", s the text of a "string" or the canonical   *)
(* JSON text of an "object" / "array".                                     *)
(***************************************************************************)
Undefined == [t |-> "undefined", n |-> 0, s |-> ""]
Null == [t |-> "null", n |-> 0, s |-> ""]
NaN == [t |-> "nan", n |-> 0, s |-> ""]
Num(n) == [t |-> "number", n |-> n, s |-> ""]
Str(s) == [t |-> "string", n |-> 0, s |-> s]
Obj(s) == [t |-> "object", n |-> 0, s |-> s]
Arr(s) == [t |-> "array", n |-> 0, s |-> s]

\* ToBoolean: undefined, null, NaN, 0 and "" are falsy
Truthy(v) ==
    CASE v.t = "undefined" -> FALSE
      [] v.t = "null" -> FALSE
      [] v.t = "nan" -> FALSE
      [] v.t = "number" -> v.n # 0
      [] v.t = "string" -> v.s # ""
      [] OTHER -> TRUE

\* a || b
OrElse(a, b) == IF Truthy(a) THEN a ELSE b

\* JSON.stringify of null, an object or an array, as a string value
JSONstringify(v) ==
    CASE v.t = "null" -> Str("null")
      [] v.t = "object" -> Str(v.s)
      [] v.t = "array" -> Str(v.s)
      [] OTHER -> Undefined

\* the JSON texts of the model, by what they denote
ObjectTexts == {"{}", "{\"a\":1}", "{\"b\":2}"}
ArrayTexts == {"[]", "[{\"role\":\"user\",\"text\":\"hi\"}]"}

\* JSON.parse of a JSON text
JSONparse(v) ==
    CASE v.s = "null" -> Null
      [] v.s \in ObjectTexts -> Obj(v.s)
      [] v.s \in ArrayTexts -> Arr(v.s)
      [] OTHER -> Undefined

\* the numeric strings of the model: what Number(s) and parseInt(s, 10) read
\* in them.  "12abc" has a numeric prefix only parseInt accepts; Number("")
\* is 0 and parseInt("") is NaN.
NumberOfString(s) ==
    CASE s = "" -> Num(0)
      [] s = "0" -> Num(0)
      [] s = "1" -> Num(1)
      [] s = "2" -> Num(2)
      [] s = "-1" -> Num(-1)
      [] s = "1000" -> Num(1000)
      [] s = "1001" -> Num(1001)
      [] OTHER -> NaN

ParseIntOfString(s) ==
    CASE s = "0" -> Num(0)
      [] s = "1" -> Num(1)
      [] s = "2" -> Num(2)
      [] s = "-1" -> Num(-1)
      [] s = "1000" -> Num(1000)
      [] s = "1001" -> Num(1001)
      [] s = "12abc" -> Num(12)
      [] OTHER -> NaN

\* Number(v)
Number(v) ==
    CASE v.t = "number" -> v
      [] v.t = "string" -> NumberOfString(v.s)
      [] v.t = "null" -> Num(0)
      [] OTHER -> NaN

\* parseInt(v, 10): v is converted to a string first
parseInt(v) ==
    CASE v.t = "number" -> v
      [] v.t = "string" -> ParseIntOfString(v.s)
      [] OTHER -> NaN

\* a query parameter as the driver binds it: undefined is sent as NULL
Bind(v) == IF v.t = "undefined" THEN Null ELSE v

Max(a, b) == IF a >= b THEN a ELSE b
Min(a, b) == IF a <= b THEN a ELSE b

(***************************************************************************)
(* State.                                                                  *)
(***************************************************************************)
VARIABLES
    dialect,    \* "pg" or "mysql": the store set the process imported
    focus,      \* the tables a behaviour works on: "leads" (leads and
                \* chat_sessions), "events" or "users"
    now,        \* the database clock
    db,         \* db.lead, db.chat, db.event, db.user, db.session: the rows of each table
    seq,        \* seq.lead, ...: the last id each table's sequence gave out
    last,       \* the last store call of Spec: its arguments and what it returned
    conns,      \* SpecConc: the pool's connections, conns[c] = [st, lastId, lastBy]
    pc,         \* pc[p], the step caller p is about to take
    call,       \* call[p], the call of caller p and its locals
    env,        \* process.env: the connection descriptor, NODE_ENV, INIT_DB_SCHEMA
    pool,       \* the db module's `pool`: 0 for null, else the id of a pool
    stats,      \* pools created, probes run, pools connect has returned, pools ended
    schema,     \* the text of schema.sql, as its semicolon-delimited segments
    ran,        \* the statements initializeSchema has passed to query()
    boot        \* bootstrap(): its position, storageType, how it ended

\* the process around the stores: environment, db module, bootstrap
sysVars == <<env, pool, stats, schema, ran, boot>>

vars == <<dialect, focus, now, db, seq, last, conns, pc, call, sysVars>>

Entities == {"lead", "chat", "event", "user"}

(***************************************************************************)
(* The tables (schema.sql, schema-safe.sql).                               *)
(***************************************************************************)
LeadStatuses == {"new", "contacted", "qualified", "closed"}

\* a column that is SQL NULL
IsNull(v) == v.t = "null"

RowWithId(rows, id) == {r \in rows : r.id = id}

\* a DELETE whose comparison is <= instead of =
DeleteRowsUpTo(rows, id) == {r \in rows : r.id > id}

\* DELETE FROM table WHERE id = ?
DeleteRows(rows, id) == {r \in rows : r.id # id}

\* INSERT INTO leads: the values createLead binds, in column order
LeadInsertParams(data) ==
    [phone |-> Bind(OrElse(data.phone, Null)),
     bhk_type |-> Bind(data.bhkType),
     bhk |-> Bind(OrElse(data.bhk, Null)),
     microsite |-> Bind(data.microsite),
     lead_source |-> Bind(OrElse(data.leadSource, Str("ChatWidget"))),
     status |-> Bind(OrElse(data.status, Str("new"))),
     metadata |-> Bind(JSONstringify(OrElse(data.metadata, Obj("{}")))),
     conversation |-> Bind(JSONstringify(OrElse(data.conversation, Arr("[]")))),
     location |-> Bind(JSONstringify(OrElse(data.location, Null)))]

\* leads: bhk_type and microsite NOT NULL, CHECK (status IN (...))
LeadInsertOk(p) ==
    /\ ~IsNull(p.bhk_type)
    /\ ~IsNull(p.microsite)
    /\ (IsNull(p.status) \/ p.status.s \in LeadStatuses)

\* the row an INSERT INTO leads stores: id from the sequence, both timestamps
\* DEFAULT CURRENT_TIMESTAMP
LeadRow(id, p, t) ==
    [id |-> id, phone |-> p.phone, bhk_type |-> p.bhk_type, bhk |-> p.bhk,
     microsite |-> p.microsite, lead_source |-> p.lead_source,
     status |-> p.status, metadata |-> p.metadata,
     conversation |-> p.conversation, location |-> p.location,
     created_at |-> t, updated_at |-> t]

\* INSERT INTO chat_sessions: the values createChatSession binds
ChatInsertParams(data) ==
    [microsite |-> Bind(data.microsite),
     project_id |-> Bind(OrElse(data.projectId, Null)),
     lead_id |-> IF Truthy(data.leadId) THEN parseInt(data.leadId) ELSE Null,
     phone |-> Bind(OrElse(data.phone, Null)),
     bhk_type |-> Bind(OrElse(data.bhkType, Null)),
     conversation |-> Bind(JSONstringify(OrElse(data.conversation, Arr("[]")))),
     metadata |-> Bind(JSONstringify(OrElse(data.metadata, Obj("{}")))),
     location |-> Bind(JSONstringify(OrElse(data.location, Null)))]

\* chat_sessions: microsite NOT NULL, lead_id an integer REFERENCES leads(id)
ChatInsertOk(p, leads) ==
    /\ ~IsNull(p.microsite)
    /\ p.lead_id.t \in {"null", "number"}
    /\ (p.lead_id.t = "number" => RowWithId(leads, p.lead_id.n) # {})

ChatRow(id, p, t) ==
    [id |-> id, microsite |-> p.microsite, project_id |-> p.project_id,
     lead_id |-> p.lead_id, phone |-> p.phone, bhk_type |-> p.bhk_type,
     conversation |-> p.conversation, metadata |-> p.metadata,
     location |-> p.location, created_at |-> t, updated_at |-> t]

\* INSERT INTO events: the values createEvent binds
EventInsertParams(data) ==
    [type |-> Bind(data.type),
     project_id |-> Bind(data.projectId),
     microsite |-> Bind(OrElse(data.microsite, Null)),
     payload |-> Bind(JSONstringify(OrElse(data.payload, Obj("{}")))),
     location |-> Bind(JSONstringify(OrElse(data.location, Null)))]

\* events: type and project_id NOT NULL
EventInsertOk(p) == ~IsNull(p.type) /\ ~IsNull(p.project_id)

EventRow(id, p, t) ==
    [id |-> id, type |-> p.type, project_id |-> p.project_id,
     microsite |-> p.microsite, payload |-> p.payload,
     location |-> p.location, created_at |-> t]

\* bcrypt.hash(password, 10), as a one-to-one relabelling of the password
BcryptHash(password) ==
    CASE password.s = "pw1" -> Str("$2b$10$pw1")
      [] password.s = "pw2" -> Str("$2b$10$pw2")
      [] OTHER -> Str("$2b$10$")

\* INSERT INTO users: the values User.create binds (role defaults to 'user')
UserInsertParams(data) ==
    [username |-> Bind(data.username),
     password_hash |-> BcryptHash(data.password),
     email |-> Bind(data.email),
     role |-> Bind(IF data.role.t = "undefined" THEN Str("user") ELSE data.role)]

\* users: username UNIQUE NOT NULL
UserInsertOk(p, users) ==
    /\ ~IsNull(p.username)
    /\ \A u \in users : u.username # p.username

UserRow(id, p, t) ==
    [id |-> id, username |-> p.username, password_hash |-> p.password_hash,
     email |-> p.email, role |-> p.role, created_at |-> t, updated_at |-> t]

(***************************************************************************)
(* Statements.  A WHERE clause is the list of its conditions, each naming  *)
(* its columns and the positions in the parameter list its placeholders    *)
(* bind ($k, or the k-th ? of the text); the database ANDs them.           *)
(***************************************************************************)
\* h LIKE '%n%' on the texts of the model (case-insensitive: all lower case)
Contains(h, n) ==
    \/ n = ""
    \/ h = n
    \/ <<h, n>> \in {<<"site-a", "site">>, <<"site-b", "site">>,
                     <<"site-a", "a">>, <<"{\"a\":1}", "a">>}

\* one condition of a WHERE clause on one row; a NULL column matches nothing
EvalCond(c, params, r) ==
    CASE c.k = "eq" -> r[c.cols[1]] = params[c.ph[1]]
      [] c.k = "search" ->
            \E j \in 1..Len(c.cols) :
                /\ r[c.cols[j]].t = "string"
                /\ Contains(r[c.cols[j]].s, params[c.ph[j]].s)
      [] c.k = "between" ->
            /\ r.created_at >= params[c.ph[1]].n
            /\ r.created_at <= params[c.ph[2]].n
      [] c.k = "ge" -> r.created_at >= params[c.ph[1]].n
      [] c.k = "le" -> r.created_at <= params[c.ph[1]].n
      [] OTHER -> FALSE

\* SELECT ... FROM rows WHERE conds: the rows every condition accepts
Matching(rows, conds, params) ==
    {r \in rows : \A i \in 1..Len(conds) : EvalCond(conds[i], params, r)}

\* the clause under construction: whereConditions, params, paramCount
EmptyWhere == [conds |-> <<>>, params |-> <<>>, paramCount |-> 1]

\* PostgreSQL: whereConditions.push(`col = $${paramCount++}`); params.push(v)
PgPushEq(w, col, v) ==
    [conds |-> Append(w.conds, [k |-> "eq", cols |-> <<col>>, ph |-> <<w.paramCount>>]),
     params |-> Append(w.params, v),
     paramCount |-> w.paramCount + 1]

\* MySQL: whereConditions.push(`col = ?`); params.push(v)
MysqlPushEq(w, col, v) ==
    [conds |-> Append(w.conds, [k |-> "eq", cols |-> <<col>>, ph |-> <<Len(w.params) + 1>>]),
     params |-> Append(w.params, v),
     paramCount |-> w.paramCount]

PushEq(d, w, col, v) == IF d = "pg" THEN PgPushEq(w, col, v) ELSE MysqlPushEq(w, col, v)

\* PostgreSQL: the three ILIKEs share $paramCount, one parameter is pushed
PgPushSearch(w, term) ==
    [conds |-> Append(w.conds,
                 [k |-> "search", cols |-> <<"microsite", "phone", "metadata">>,
                  ph |-> <<w.paramCount, w.paramCount, w.paramCount>>]),
     params |-> Append(w.params, term),
     paramCount |-> w.paramCount + 1]

\* MySQL: three ? and the term pushed three times
MysqlPushSearch(w, term) ==
    [conds |-> Append(w.conds,
                 [k |-> "search", cols |-> <<"microsite", "phone", "metadata">>,
                  ph |-> <<Len(w.params) + 1, Len(w.params) + 2, Len(w.params) + 3>>]),
     params |-> w.params \o <<term, term, term>>,
     paramCount |-> w.paramCount]

\* the index the next placeholder of the text binds
NextPh(d, w) == IF d = "pg" THEN w.paramCount ELSE Len(w.params) + 1

\* the created_at conditions of listLeads and listEvents
PushDates(d, w, startDate, endDate) ==
    LET i == NextPh(d, w)
        bump(n) == IF d = "pg" THEN w.paramCount + n ELSE w.paramCount
    IN  IF Truthy(startDate) /\ Truthy(endDate)
        THEN [conds |-> Append(w.conds, [k |-> "between", cols |-> <<"created_at">>, ph |-> <<i, i + 1>>]),
              params |-> w.params \o <<startDate, endDate>>,
              paramCount |-> bump(2)]
        ELSE IF Truthy(startDate)
        THEN [conds |-> Append(w.conds, [k |-> "ge", cols |-> <<"created_at">>, ph |-> <<i>>]),
              params |-> Append(w.params, startDate),
              paramCount |-> bump(1)]
        ELSE IF Truthy(endDate)
        THEN [conds |-> Append(w.conds, [k |-> "le", cols |-> <<"created_at">>, ph |-> <<i>>]),
              params |-> Append(w.params, endDate),
              paramCount |-> bump(1)]
        ELSE w

\* listLeads: microsite, search, dates, status, in that order
LeadWhere(d, f) ==
    LET w1 == IF Truthy(f.microsite) THEN PushEq(d, EmptyWhere, "microsite", f.microsite)
              ELSE EmptyWhere
        w2 == IF Truthy(f.search)
              THEN (IF d = "pg" THEN PgPushSearch(w1, f.search) ELSE MysqlPushSearch(w1, f.search))
              ELSE w1
        w3 == PushDates(d, w2, f.startDate, f.endDate)
    IN  IF Truthy(f.status) THEN PushEq(d, w3, "status", f.status) ELSE w3

\* listChatSessions: microsite, leadId, projectId
ChatWhere(d, f) ==
    LET w1 == IF Truthy(f.microsite) THEN PushEq(d, EmptyWhere, "microsite", f.microsite)
              ELSE EmptyWhere
        w2 == IF Truthy(f.leadId) THEN PushEq(d, w1, "lead_id", parseInt(f.leadId)) ELSE w1
    IN  IF Truthy(f.projectId) THEN PushEq(d, w2, "project_id", f.projectId) ELSE w2

\* listEvents: type, projectId, microsite, dates
EventWhere(d, f) ==
    LET w1 == IF Truthy(f.type) THEN PushEq(d, EmptyWhere, "type", f.type) ELSE EmptyWhere
        w2 == IF Truthy(f.projectId) THEN PushEq(d, w1, "project_id", f.projectId) ELSE w1
        w3 == IF Truthy(f.microsite) THEN PushEq(d, w2, "microsite", f.microsite) ELSE w2
    IN  PushDates(d, w3, f.startDate, f.endDate)

(***************************************************************************)
(* Pagination.                                                             *)
(***************************************************************************)
\* PostgreSQL stores and both listEvents:
\* skip = Number(filters.skip) || 0; limit = Number(filters.limit) || dflt
NumberOrBounds(f, dflt) ==
    [skip |-> OrElse(Number(f.skip), Num(0)),
     limit |-> OrElse(Number(f.limit), Num(dflt))]

\* MySQL listLeads and listChatSessions: parseInt, then validSkip / validLimit
ValidBounds(f) ==
    LET skip == IF f.skip.t \notin {"undefined", "null"} THEN parseInt(f.skip) ELSE Num(0)
        limit == IF f.limit.t \notin {"undefined", "null"} THEN parseInt(f.limit) ELSE Num(50)
    IN  [skip |-> IF skip.t = "nan" THEN Num(0) ELSE Num(Max(0, skip.n)),
         limit |-> IF limit.t = "nan" THEN Num(50) ELSE Num(Max(1, Min(1000, limit.n)))]

\* the page query: the WHERE clause, the parameters with the two pagination
\* values appended, and the placeholders of the row-count and offset operands.
\* PostgreSQL: params.push(limit, skip), LIMIT $n OFFSET $n+1
PgPageQuery(w, b) ==
    [conds |-> w.conds,
     params |-> w.params \o <<b.limit, b.skip>>,
     countPh |-> w.paramCount,
     offsetPh |-> w.paramCount + 1]

\* a MySQL page query with the two values appended row count first
MysqlPageQueryCountFirst(w, b) ==
    [conds |-> w.conds,
     params |-> w.params \o <<b.limit, b.skip>>,
     countPh |-> Len(w.params) + 2,
     offsetPh |-> Len(w.params) + 1]

\* MySQL: [...params, skip, limit], LIMIT ?, ? (offset first, row count second)
MysqlPageQuery(w, b) ==
    [conds |-> w.conds,
     params |-> w.params \o <<b.skip, b.limit>>,
     countPh |-> Len(w.params) + 2,
     offsetPh |-> Len(w.params) + 1]

PageQuery(d, w, b) == IF d = "pg" THEN PgPageQuery(w, b) ELSE MysqlPageQuery(w, b)

\* the values a page query binds to the row-count and the offset operand
BoundLimit(q) == q.params[q.countPh]
BoundOffset(q) == q.params[q.offsetPh]

\* the database rejects a LIMIT or OFFSET operand that is no number >= 0
PageQueryOk(q) ==
    /\ BoundLimit(q).t = "number" /\ BoundLimit(q).n >= 0
    /\ BoundOffset(q).t = "number" /\ BoundOffset(q).n >= 0

\* ORDER BY created_at DESC: every order of the rows the database may return
\* (rows of equal created_at in any order)
OrderedDesc(rows) ==
    LET n == Cardinality(rows)
    IN  {q \in [1..n -> rows] :
            /\ \A i, j \in 1..n : i # j => q[i] # q[j]
            /\ \A i, j \in 1..n : i < j => q[i].created_at >= q[j].created_at}

\* LIMIT count OFFSET offset of an ordered result
Page(q, count, offset) ==
    [i \in 1..Max(0, Min(Len(q) - offset, count)) |-> q[offset + i]]

(***************************************************************************)
(* Rows on their way back to the caller.                                   *)
(***************************************************************************)
JsonCols == {"metadata", "conversation", "location", "payload"}

\* a row as the driver returns it when it parses JSON / JSONB columns
Fetched(r) ==
    [c \in DOMAIN r |-> IF c \in JsonCols THEN JSONparse(r[c]) ELSE r[c]]

\* the forms in which a stored row can reach the store code: node-postgres
\* parses JSONB; behind mysql2 the column arrives parsed when the server has
\* a native JSON type and as its JSON text when JSON is a text alias (the
\* case the stores' typeof row.col === 'string' branches are written for)
Delivered(d, r) == IF d = "pg" THEN {Fetched(r)} ELSE {Fetched(r), r}

\* a row returned as it was delivered
AsDelivered(row) == row

\* { ...row, col: typeof row.col === 'string' ? JSON.parse(row.col) : row.col }
Normalized(row) ==
    [c \in DOMAIN row |->
        IF c \in JsonCols /\ row[c].t = "string" THEN JSONparse(row[c]) ELSE row[c]]

\* SELECT id, username, email, role, created_at, updated_at FROM users
UserPublicCols == {"id", "username", "email", "role", "created_at", "updated_at"}
Project(r, cols) == [c \in cols |-> r[c]]

MapSeq(q, F(_)) == [i \in 1..Len(q) |-> F(q[i])]

\* what a call of the one-caller specification did: op and its arguments, how
\* it ended (val: "row", "null", "undefined", "list", "true" or "error"), the
\* row or page it returned, the statements it issued, and for a list call the
\* values bound as limit and offset
Call(op, id, arg, val, row, items, total, stmts, lim, off) ==
    [op |-> op, id |-> id, arg |-> arg, val |-> val, row |-> row,
     items |-> items, total |-> total, stmts |-> stmts, lim |-> lim, off |-> off]

\* results.rows[0] || null of a SELECT by id
RowOrNull(rows) == IF rows = {} THEN "null" ELSE "row"

TheRow(rows) == IF rows = {} THEN <<>> ELSE <<CHOOSE r \in rows : TRUE>>

Created == seq.lead + seq.chat + seq.event + seq.user

NoCall == Call("none", 0, Null, "none", <<>>, <<>>, -1, <<>>, Undefined, Undefined)

\* the caller is between two store calls
Idle == last = NoCall

(***************************************************************************)
(* Inputs.                                                                 *)
(***************************************************************************)
NoLeadData ==
    [phone |-> Undefined, bhkType |-> Undefined, bhk |-> Undefined,
     microsite |-> Undefined, leadSource |-> Undefined, status |-> Undefined,
     metadata |-> Undefined, conversation |-> Undefined, location |-> Undefined]

LeadInputs ==
    {[NoLeadData EXCEPT !.microsite = Str("site-a"), !.bhkType = Str("2BHK")],
     [NoLeadData EXCEPT !.microsite = Str("site-b"), !.bhkType = Str("3BHK"),
                        !.phone = Str("p1"), !.status = Str("contacted"),
                        !.metadata = Obj("{\"a\":1}")],
     [NoLeadData EXCEPT !.microsite = Str("site-a")]}

NoLeadUpdates ==
    [phone |-> Undefined, bhkType |-> Undefined, bhk |-> Undefined,
     status |-> Undefined, metadata |-> Undefined, conversation |-> Undefined,
     location |-> Undefined]

LeadUpdateInputs ==
    {NoLeadUpdates,
     [NoLeadUpdates EXCEPT !.status = Str("qualified")],
     [NoLeadUpdates EXCEPT !.metadata = Obj("{\"b\":2}"),
                           !.conversation = Arr("[{\"role\":\"user\",\"text\":\"hi\"}]")],
     [NoLeadUpdates EXCEPT !.status = Str("bogus")]}

\* requested limit and skip values: absent, null, numbers, numeric and other strings
LimitInputs ==
    {Undefined, Null, Num(0), Num(-1), Num(1), Num(2), Num(1001),
     Str("1"), Str("abc"), Str("12abc"), Str("")}

SkipInputs == {Undefined, Num(-1), Num(1), Str("1"), Str("abc")}

\* the limit / skip pairs list calls are made with: every limit with no skip,
\* every skip with no limit and with limit 1
PageInputs ==
    {<<l, Undefined>> : l \in LimitInputs}
      \cup {<<Undefined, k>> : k \in SkipInputs}
      \cup {<<Num(1), k>> : k \in SkipInputs}

NoLeadFilters ==
    [microsite |-> Undefined, search |-> Undefined, startDate |-> Undefined,
     endDate |-> Undefined, status |-> Undefined, skip |-> Undefined, limit |-> Undefined]

\* the filters every limit / skip pair is tried with
LeadPaged == {NoLeadFilters, [NoLeadFilters EXCEPT !.status = Str("new")]}

LeadWhereInputs ==
    LeadPaged \cup {
     [NoLeadFilters EXCEPT !.microsite = Str("site-a"), !.search = Str("a")],
     [NoLeadFilters EXCEPT !.search = Str("site"), !.startDate = Num(1)],
     [NoLeadFilters EXCEPT !.startDate = Num(1), !.endDate = Num(1), !.status = Str("contacted")],
     [NoLeadFilters EXCEPT !.endDate = Num(1)]}

IdInputs == 1..(MaxCreates + 1)

(***************************************************************************)
(* The Lead store, one caller (mysqlLeadStore.js, postgres lead store).    *)
(***************************************************************************)
\* createLead(data): PostgreSQL INSERT ... RETURNING *; MySQL INSERT, then
\* SELECT ... WHERE id = LAST_INSERT_ID().  A lone caller's statements all
\* run on the pool's one connection, whose LAST_INSERT_ID() is the id just
\* given out.  The row is returned as the driver delivered it.
createLead(data) ==
    LET p == LeadInsertParams(data)
        id == seq.lead + 1
        r == LeadRow(id, p, now)
    IN  /\ Idle /\ focus = "leads"
        /\ Created < MaxCreates
        /\ IF LeadInsertOk(p)
           THEN /\ db' = [db EXCEPT !.lead = @ \cup {r}]
                /\ seq' = [seq EXCEPT !.lead = id]
                /\ \E row \in Delivered(dialect, r) :
                     last' = Call("createLead", 0, data, "row", <<row>>, <<>>, -1,
                                IF dialect = "pg" THEN <<"INSERT">> ELSE <<"INSERT", "SELECT">>,
                                Undefined, Undefined)
           ELSE /\ UNCHANGED <<db, seq>>
                /\ last' = Call("createLead", 0, data, "error", <<>>, <<>>, -1,
                                <<"INSERT">>, Undefined, Undefined)
        /\ UNCHANGED <<sysVars, dialect, focus, now, conns, pc, call>>

\* getLeadById(id): SELECT * FROM leads WHERE id = ?, the row normalized
LeadById(id) == {Normalized(Fetched(r)) : r \in RowWithId(db.lead, id)}

getLeadById(id) ==
    /\ Idle /\ focus = "leads"
    /\ last' = Call("getLeadById", id, Null, RowOrNull(LeadById(id)),
                    TheRow(LeadById(id)), <<>>, -1, <<"SELECT">>, Undefined, Undefined)
    /\ UNCHANGED <<sysVars, dialect, focus, now, db, seq, conns, pc, call>>

\* a DELETE FROM leads that leaves the chat sessions as they are
DeleteLeadOnly(d, id) == [d EXCEPT !.lead = DeleteRows(@, id)]

\* deleteLead(id): DELETE FROM leads WHERE id = ?; chat_sessions.lead_id is
\* declared ON DELETE SET NULL
DeleteLeadRows(d, id) ==
    [d EXCEPT !.lead = DeleteRows(@, id),
              !.chat = {IF r.lead_id = Num(id) THEN [r EXCEPT !.lead_id = Null] ELSE r
                        : r \in @}]

\* DELETE FROM users WHERE id = $1; sessions.user_id is declared
\* ON DELETE CASCADE
DeleteUserRows(d, id) ==
    [d EXCEPT !.user = DeleteRows(@, id),
              !.session = {r \in @ : r.user_id # Num(id)}]

\* the table a store operation works on
OpTable(op) ==
    CASE op \in {"listLeads", "updateLead", "deleteLead"} -> "lead"
      [] op \in {"listChatSessions", "updateChatSession", "deleteChatSession"} -> "chat"
      [] op \in {"listEvents", "deleteEvent"} -> "event"
      [] OTHER -> "user"

\* the tables after the DELETE of a delete operation
Deleted(op, d, id) ==
    IF op = "deleteLead" THEN DeleteLeadRows(d, id)
    ELSE IF op = "User.delete" THEN DeleteUserRows(d, id)
    ELSE [d EXCEPT ![OpTable(op)] = DeleteRows(@, id)]

deleteLead(id) ==
    /\ Idle /\ focus = "leads"
    /\ db' = Deleted("deleteLead", db, id)
    /\ last' = Call("deleteLead", id, Null, "true", <<>>, <<>>, -1, <<"DELETE">>,
                    Undefined, Undefined)
    /\ UNCHANGED <<sysVars, dialect, focus, now, seq, conns, pc, call>>

\* a field pushed whether or not it was provided
PushSetAlways(sets, col, v) == Append(sets, [col |-> col, v |-> Bind(v)])

\* fields.push(`col = ?`); values.push(v), when the field is not undefined
PushSet(sets, col, v) ==
    IF v.t # "undefined" THEN Append(sets, [col |-> col, v |-> v]) ELSE sets

\* the SET list updateLead builds
LeadSets(updates) ==
    LET s1 == PushSet(<<>>, "phone", updates.phone)
        s2 == PushSet(s1, "bhk_type", updates.bhkType)
        s3 == PushSet(s2, "bhk", updates.bhk)
        s4 == PushSet(s3, "status", updates.status)
        s5 == PushSet(s4, "metadata",
                      IF updates.metadata.t = "undefined" THEN Undefined
                      ELSE JSONstringify(updates.metadata))
        s6 == PushSet(s5, "conversation",
                      IF updates.conversation.t = "undefined" THEN Undefined
                      ELSE JSONstringify(updates.conversation))
    IN  PushSet(s6, "location",
                IF updates.location.t = "undefined" THEN Undefined
                ELSE JSONstringify(updates.location))

\* an UPDATE that resets the columns it was given no value for
UpdatedRowAllCols(d, r, sets, t) ==
    [c \in DOMAIN r |->
        IF \E i \in 1..Len(sets) : sets[i].col = c
        THEN sets[CHOOSE i \in 1..Len(sets) : sets[i].col = c].v
        ELSE IF c \in {"id", "created_at"} THEN r[c]
        ELSE IF c = "updated_at" THEN t
        ELSE Null]

\* UPDATE ... SET sets on one row.  updated_at: PostgreSQL's BEFORE UPDATE
\* trigger sets it on every updated row, MySQL's ON UPDATE CURRENT_TIMESTAMP
\* when a column of the row changes value.
UpdatedRow(d, r, sets, t) ==
    LET new == [c \in DOMAIN r |->
                  IF \E i \in 1..Len(sets) : sets[i].col = c
                  THEN sets[CHOOSE i \in 1..Len(sets) : sets[i].col = c].v
                  ELSE r[c]]
    IN  IF d = "pg" \/ new # r THEN [new EXCEPT !.updated_at = t] ELSE new

\* an UPDATE whose WHERE clause matches every row
UpdatedRowsNoWhere(d, rows, id, sets, t) ==
    {[r EXCEPT !.updated_at = t] : r \in rows}

\* UPDATE table SET sets WHERE id = ?
UpdatedRows(d, rows, id, sets, t) ==
    {IF r.id = id THEN UpdatedRow(d, r, sets, t) ELSE r : r \in rows}

\* the constraints of leads on a stored row
LeadRowOk(r) ==
    /\ ~IsNull(r.bhk_type)
    /\ ~IsNull(r.microsite)
    /\ (IsNull(r.status) \/ r.status.s \in LeadStatuses)

\* updateLead(id, updates): no field -> getLeadById(id); else PostgreSQL
\* UPDATE ... RETURNING *, MySQL UPDATE then SELECT by id; the row normalized
updateLead(id, updates) ==
    LET sets == LeadSets(updates)
        new == UpdatedRows(dialect, db.lead, id, sets, now)
        back == {Normalized(Fetched(r)) : r \in RowWithId(new, id)}
    IN  /\ Idle /\ focus = "leads"
        /\ IF sets = <<>>
           THEN /\ last' = Call("updateLead", id, updates, RowOrNull(LeadById(id)),
                                TheRow(LeadById(id)), <<>>, -1, <<"SELECT">>,
                                Undefined, Undefined)
                /\ UNCHANGED db
           ELSE IF \A r \in new : LeadRowOk(r)
           THEN /\ db' = [db EXCEPT !.lead = new]
                /\ last' = Call("updateLead", id, updates, RowOrNull(back), TheRow(back),
                                <<>>, -1,
                                IF dialect = "pg" THEN <<"UPDATE">> ELSE <<"UPDATE", "SELECT">>,
                                Undefined, Undefined)
           ELSE /\ last' = Call("updateLead", id, updates, "error", <<>>, <<>>, -1,
                                <<"UPDATE">>, Undefined, Undefined)
                /\ UNCHANGED db
        /\ UNCHANGED <<sysVars, dialect, focus, now, seq, conns, pc, call>>

\* the pagination bounds of listLeads / listChatSessions
ListBounds(d, f) == IF d = "pg" THEN NumberOrBounds(f, 50) ELSE ValidBounds(f)

\* a count query that leaves the WHERE clause out
CountQueryNoWhere(rows, w) == Cardinality(rows)

\* SELECT COUNT(*) as total FROM table whereClause
CountQuery(rows, w) == Cardinality(Matching(rows, w.conds, w.params))

\* listLeads(filters): the count query, then the page query; { items, total }
listLeads(f) ==
    LET w == LeadWhere(dialect, f)
        total == CountQuery(db.lead, w)
        q == PageQuery(dialect, w, ListBounds(dialect, f))
    IN  /\ Idle /\ focus = "leads"
        /\ IF PageQueryOk(q)
           THEN \E ord \in OrderedDesc(Matching(db.lead, q.conds, q.params)) :
                    last' = Call("listLeads", 0, f, "list", <<>>,
                                 MapSeq(Page(ord, BoundLimit(q).n, BoundOffset(q).n),
                                        LAMBDA r : Normalized(Fetched(r))),
                                 total, <<"COUNT", "SELECT">>, BoundLimit(q), BoundOffset(q))
           ELSE last' = Call("listLeads", 0, f, "error", <<>>, <<>>, -1,
                             <<"COUNT", "SELECT">>, BoundLimit(q), BoundOffset(q))
        /\ UNCHANGED <<sysVars, dialect, focus, now, db, seq, conns, pc, call>>

\* the database clock advances
(***************************************************************************)
(* The ChatSession store, one caller.                                      *)
(***************************************************************************)
NoChatData ==
    [microsite |-> Undefined, projectId |-> Undefined, leadId |-> Undefined,
     phone |-> Undefined, bhkType |-> Undefined, conversation |-> Undefined,
     metadata |-> Undefined, location |-> Undefined]

ChatInputs ==
    {[NoChatData EXCEPT !.microsite = Str("site-a")],
     [NoChatData EXCEPT !.microsite = Str("site-b"), !.projectId = Str("p1"),
                        !.leadId = Str("1")]}

NoChatUpdates == [conversation |-> Undefined, metadata |-> Undefined, location |-> Undefined]

ChatUpdateInputs ==
    {NoChatUpdates,
     [NoChatUpdates EXCEPT !.conversation = Arr("[{\"role\":\"user\",\"text\":\"hi\"}]")],
     [NoChatUpdates EXCEPT !.metadata = Null]}

NoChatFilters ==
    [microsite |-> Undefined, leadId |-> Undefined, projectId |-> Undefined,
     skip |-> Undefined, limit |-> Undefined]

ChatPaged == {NoChatFilters, [NoChatFilters EXCEPT !.microsite = Str("site-b")]}

ChatWhereInputs ==
    ChatPaged \cup {
     [NoChatFilters EXCEPT !.leadId = Num(1), !.projectId = Str("p1")]}

ChatFilterInputs ==
    {[f EXCEPT !.limit = lk[1], !.skip = lk[2]] :
        f \in ChatWhereInputs, lk \in {<<Undefined, Undefined>>, <<Num(1), Num(1)>>}}
      \cup {[f EXCEPT !.limit = lk[1], !.skip = lk[2]] :
        f \in ChatPaged, lk \in PageInputs}

\* createChatSession(data): as createLead, the row normalized
createChatSession(data) ==
    LET p == ChatInsertParams(data)
        id == seq.chat + 1
        r == ChatRow(id, p, now)
    IN  /\ Idle /\ focus = "leads"
        /\ Created < MaxCreates
        /\ IF ChatInsertOk(p, db.lead)
           THEN /\ db' = [db EXCEPT !.chat = @ \cup {r}]
                /\ seq' = [seq EXCEPT !.chat = id]
                /\ last' = Call("createChatSession", 0, data, "row",
                                TheRow({Normalized(Fetched(x)) : x \in RowWithId(db'.chat, id)}),
                                <<>>, -1,
                                IF dialect = "pg" THEN <<"INSERT">> ELSE <<"INSERT", "SELECT">>,
                                Undefined, Undefined)
           ELSE /\ UNCHANGED <<db, seq>>
                /\ last' = Call("createChatSession", 0, data, "error", <<>>, <<>>, -1,
                                <<"INSERT">>, Undefined, Undefined)
        /\ UNCHANGED <<sysVars, dialect, focus, now, conns, pc, call>>

ChatById(id) == {Normalized(Fetched(r)) : r \in RowWithId(db.chat, id)}

getChatSessionById(id) ==
    /\ Idle /\ focus = "leads"
    /\ last' = Call("getChatSessionById", id, Null, RowOrNull(ChatById(id)),
                    TheRow(ChatById(id)), <<>>, -1, <<"SELECT">>, Undefined, Undefined)
    /\ UNCHANGED <<sysVars, dialect, focus, now, db, seq, conns, pc, call>>

deleteChatSession(id) ==
    /\ Idle /\ focus = "leads"
    /\ db' = Deleted("deleteChatSession", db, id)
    /\ last' = Call("deleteChatSession", id, Null, "true", <<>>, <<>>, -1, <<"DELETE">>,
                    Undefined, Undefined)
    /\ UNCHANGED <<sysVars, dialect, focus, now, seq, conns, pc, call>>

\* the SET list updateChatSession builds
ChatSets(updates) ==
    LET s1 == PushSet(<<>>, "conversation",
                      IF updates.conversation.t = "undefined" THEN Undefined
                      ELSE JSONstringify(updates.conversation))
        s2 == PushSet(s1, "metadata",
                      IF updates.metadata.t = "undefined" THEN Undefined
                      ELSE JSONstringify(updates.metadata))
    IN  PushSet(s2, "location",
                IF updates.location.t = "undefined" THEN Undefined
                ELSE JSONstringify(updates.location))

updateChatSession(id, updates) ==
    LET sets == ChatSets(updates)
        new == UpdatedRows(dialect, db.chat, id, sets, now)
        back == {Normalized(Fetched(r)) : r \in RowWithId(new, id)}
    IN  /\ Idle /\ focus = "leads"
        /\ IF sets = <<>>
           THEN /\ last' = Call("updateChatSession", id, updates, RowOrNull(ChatById(id)),
                                TheRow(ChatById(id)), <<>>, -1, <<"SELECT">>,
                                Undefined, Undefined)
                /\ UNCHANGED db
           ELSE /\ db' = [db EXCEPT !.chat = new]
                /\ last' = Call("updateChatSession", id, updates, RowOrNull(back),
                                TheRow(back), <<>>, -1,
                                IF dialect = "pg" THEN <<"UPDATE">> ELSE <<"UPDATE", "SELECT">>,
                                Undefined, Undefined)
        /\ UNCHANGED <<sysVars, dialect, focus, now, seq, conns, pc, call>>

listChatSessions(f) ==
    LET w == ChatWhere(dialect, f)
        total == CountQuery(db.chat, w)
        q == PageQuery(dialect, w, ListBounds(dialect, f))
    IN  /\ Idle /\ focus = "leads"
        /\ IF PageQueryOk(q)
           THEN \E ord \in OrderedDesc(Matching(db.chat, q.conds, q.params)) :
                    last' = Call("listChatSessions", 0, f, "list", <<>>,
                                 MapSeq(Page(ord, BoundLimit(q).n, BoundOffset(q).n),
                                        LAMBDA r : Normalized(Fetched(r))),
                                 total, <<"COUNT", "SELECT">>, BoundLimit(q), BoundOffset(q))
           ELSE last' = Call("listChatSessions", 0, f, "error", <<>>, <<>>, -1,
                             <<"COUNT", "SELECT">>, BoundLimit(q), BoundOffset(q))
        /\ UNCHANGED <<sysVars, dialect, focus, now, db, seq, conns, pc, call>>

(***************************************************************************)
(* The Event store, one caller.                                            *)
(***************************************************************************)
NoEventData ==
    [type |-> Undefined, projectId |-> Undefined, microsite |-> Undefined,
     payload |-> Undefined, location |-> Undefined]

EventInputs ==
    {[NoEventData EXCEPT !.type = Str("widget_open"), !.projectId = Str("p1")],
     [NoEventData EXCEPT !.type = Str("lead_submit"), !.projectId = Str("p2"),
                         !.microsite = Str("site-a"), !.payload = Obj("{\"a\":1}")],
     [NoEventData EXCEPT !.type = Str("widget_open")]}

NoEventFilters ==
    [type |-> Undefined, projectId |-> Undefined, microsite |-> Undefined,
     startDate |-> Undefined, endDate |-> Undefined, skip |-> Undefined, limit |-> Undefined]

EventPaged == {NoEventFilters, [NoEventFilters EXCEPT !.type = Str("widget_open")]}

EventWhereInputs ==
    EventPaged \cup {
     [NoEventFilters EXCEPT !.projectId = Str("p2"), !.microsite = Str("site-a")],
     [NoEventFilters EXCEPT !.startDate = Num(1)]}

EventFilterInputs ==
    {[f EXCEPT !.limit = lk[1], !.skip = lk[2]] :
        f \in EventWhereInputs, lk \in {<<Undefined, Undefined>>, <<Num(1), Num(1)>>}}
      \cup {[f EXCEPT !.limit = lk[1], !.skip = lk[2]] :
        f \in EventPaged, lk \in PageInputs}

\* createEvent(data): the row returned as the driver delivered it
createEvent(data) ==
    LET p == EventInsertParams(data)
        id == seq.event + 1
        r == EventRow(id, p, now)
    IN  /\ Idle /\ focus = "events"
        /\ Created < MaxCreates
        /\ IF EventInsertOk(p)
           THEN /\ db' = [db EXCEPT !.event = @ \cup {r}]
                /\ seq' = [seq EXCEPT !.event = id]
                /\ \E row \in Delivered(dialect, r) :
                     last' = Call("createEvent", 0, data, "row", <<row>>, <<>>, -1,
                                IF dialect = "pg" THEN <<"INSERT">> ELSE <<"INSERT", "SELECT">>,
                                Undefined, Undefined)
           ELSE /\ UNCHANGED <<db, seq>>
                /\ last' = Call("createEvent", 0, data, "error", <<>>, <<>>, -1,
                                <<"INSERT">>, Undefined, Undefined)
        /\ UNCHANGED <<sysVars, dialect, focus, now, conns, pc, call>>

EventById(id) == {Normalized(Fetched(r)) : r \in RowWithId(db.event, id)}

getEventById(id) ==
    /\ Idle /\ focus = "events"
    /\ last' = Call("getEventById", id, Null, RowOrNull(EventById(id)),
                    TheRow(EventById(id)), <<>>, -1, <<"SELECT">>, Undefined, Undefined)
    /\ UNCHANGED <<sysVars, dialect, focus, now, db, seq, conns, pc, call>>

deleteEvent(id) ==
    /\ Idle /\ focus = "events"
    /\ db' = Deleted("deleteEvent", db, id)
    /\ last' = Call("deleteEvent", id, Null, "true", <<>>, <<>>, -1, <<"DELETE">>,
                    Undefined, Undefined)
    /\ UNCHANGED <<sysVars, dialect, focus, now, seq, conns, pc, call>>

\* listEvents(filters): one page query, no count query; returns the rows
listEvents(f) ==
    LET w == EventWhere(dialect, f)
        q == PageQuery(dialect, w, NumberOrBounds(f, 100))
    IN  /\ Idle /\ focus = "events"
        /\ IF PageQueryOk(q)
           THEN \E ord \in OrderedDesc(Matching(db.event, q.conds, q.params)) :
                    last' = Call("listEvents", 0, f, "array", <<>>,
                                 MapSeq(Page(ord, BoundLimit(q).n, BoundOffset(q).n),
                                        LAMBDA r : Normalized(Fetched(r))),
                                 -1, <<"SELECT">>, BoundLimit(q), BoundOffset(q))
           ELSE last' = Call("listEvents", 0, f, "error", <<>>, <<>>, -1,
                             <<"SELECT">>, BoundLimit(q), BoundOffset(q))
        /\ UNCHANGED <<sysVars, dialect, focus, now, db, seq, conns, pc, call>>

(***************************************************************************)
(* The User store, one caller (PostgreSQL only).                           *)
(***************************************************************************)
NoUserData ==
    [username |-> Undefined, password |-> Undefined, email |-> Undefined, role |-> Undefined]

UserInputs ==
    {[NoUserData EXCEPT !.username = Str("u1"), !.password = Str("pw1")],
     [NoUserData EXCEPT !.username = Str("u2"), !.password = Str("pw2"),
                        !.email = Str("e2"), !.role = Str("admin")]}

NoUserUpdates == [email |-> Undefined, role |-> Undefined, password |-> Undefined]

UserUpdateInputs ==
    {NoUserUpdates,
     [NoUserUpdates EXCEPT !.role = Str("admin")],
     [NoUserUpdates EXCEPT !.email = Null, !.password = Str("pw2")]}

\* User.create: INSERT ... RETURNING id, username, email, role, created_at, updated_at
UserCreate(data) ==
    LET p == UserInsertParams(data)
        id == seq.user + 1
        r == UserRow(id, p, now)
    IN  /\ Idle /\ focus = "users"
        /\ Created < MaxCreates
        /\ IF UserInsertOk(p, db.user)
           THEN /\ db' = [db EXCEPT !.user = @ \cup {r}]
                /\ seq' = [seq EXCEPT !.user = id]
                /\ last' = Call("User.create", 0, data, "row",
                                <<Project(r, UserPublicCols)>>, <<>>, -1, <<"INSERT">>,
                                Undefined, Undefined)
           ELSE /\ UNCHANGED <<db, seq>>
                /\ last' = Call("User.create", 0, data, "error", <<>>, <<>>, -1,
                                <<"INSERT">>, Undefined, Undefined)
        /\ UNCHANGED <<sysVars, dialect, focus, now, conns, pc, call>>

\* User.findById: result.rows[0] || null
UserById(id) == {Project(r, UserPublicCols) : r \in RowWithId(db.user, id)}

UserFindById(id) ==
    /\ Idle /\ focus = "users"
    /\ last' = Call("User.findById", id, Null, RowOrNull(UserById(id)),
                    TheRow(UserById(id)), <<>>, -1, <<"SELECT">>, Undefined, Undefined)
    /\ UNCHANGED <<sysVars, dialect, focus, now, db, seq, conns, pc, call>>

\* the SET list User.update builds
UserSets(updates) ==
    LET s1 == PushSet(<<>>, "email", updates.email)
        s2 == PushSet(s1, "role", updates.role)
    IN  PushSet(s2, "password_hash",
                IF updates.password.t = "undefined" THEN Undefined
                ELSE BcryptHash(updates.password))

\* User.update: no field -> findById(id); else UPDATE ... RETURNING the public columns
UserUpdate(id, updates) ==
    LET sets == UserSets(updates)
        new == UpdatedRows(dialect, db.user, id, sets, now)
        back == {Project(r, UserPublicCols) : r \in RowWithId(new, id)}
    IN  /\ Idle /\ focus = "users"
        /\ IF sets = <<>>
           THEN /\ last' = Call("User.update", id, updates, RowOrNull(UserById(id)),
                                TheRow(UserById(id)), <<>>, -1, <<"SELECT">>,
                                Undefined, Undefined)
                /\ UNCHANGED db
           ELSE /\ db' = [db EXCEPT !.user = new]
                /\ last' = Call("User.update", id, updates, RowOrNull(back), TheRow(back),
                                <<>>, -1, <<"UPDATE">>, Undefined, Undefined)
        /\ UNCHANGED <<sysVars, dialect, focus, now, seq, conns, pc, call>>

\* User.delete: DELETE FROM users WHERE id = $1
UserDelete(id) ==
    /\ Idle /\ focus = "users"
    /\ db' = Deleted("User.delete", db, id)
    /\ last' = Call("User.delete", id, Null, "true", <<>>, <<>>, -1, <<"DELETE">>,
                    Undefined, Undefined)
    /\ UNCHANGED <<sysVars, dialect, focus, now, seq, conns, pc, call>>

\* the caller takes the result of its call; it may then call again
Return ==
    /\ ~Idle
    /\ last' = NoCall
    /\ UNCHANGED <<sysVars, dialect, focus, now, db, seq, conns, pc, call>>

Tick ==
    /\ Idle
    /\ now < MaxTime
    /\ now' = now + 1
    /\ UNCHANGED <<sysVars, dialect, focus, db, seq, last, conns, pc, call>>

LeadFilterInputs ==
    {[f EXCEPT !.limit = lk[1], !.skip = lk[2]] :
        f \in LeadWhereInputs, lk \in {<<Undefined, Undefined>>, <<Num(1), Num(1)>>}}
      \cup {[f EXCEPT !.limit = lk[1], !.skip = lk[2]] :
        f \in LeadPaged, lk \in PageInputs}

\* the process once bootstrap has connected and selected relational storage:
\* the state the store operations run in
Serving ==
    /\ env = [url |-> "url", discrete |-> FALSE, mode |-> "development", initSchema |-> FALSE]
    /\ pool = 1
    /\ stats = [created |-> 1, probes |-> 1, returned |-> {1}, ended |-> {}]
    /\ schema = <<>>
    /\ ran = <<>>
    /\ boot = [pc |-> "listening", storageType |-> "relational", schemaError |-> "none"]

Init ==
    /\ Serving
    /\ dialect \in {"pg", "mysql"}
    /\ focus \in {"leads", "events", "users"}
    /\ focus = "users" => dialect = "pg"
    /\ now = 0
    /\ db = [lead |-> {}, chat |-> {}, event |-> {}, user |-> {}, session |-> {}]
    /\ seq = [lead |-> 0, chat |-> 0, event |-> 0, user |-> 0, session |-> 0]
    /\ last = NoCall
    /\ conns = <<>>
    /\ pc = <<>>
    /\ call = <<>>

Next ==
    \/ Tick
    \/ Return
    \/ \E data \in LeadInputs : createLead(data)
    \/ \E id \in IdInputs : getLeadById(id)
    \/ \E id \in IdInputs : deleteLead(id)
    \/ \E id \in IdInputs, u \in LeadUpdateInputs : updateLead(id, u)
    \/ \E f \in LeadFilterInputs : listLeads(f)
    \/ \E data \in ChatInputs : createChatSession(data)
    \/ \E id \in IdInputs : getChatSessionById(id)
    \/ \E id \in IdInputs : deleteChatSession(id)
    \/ \E id \in IdInputs, u \in ChatUpdateInputs : updateChatSession(id, u)
    \/ \E f \in ChatFilterInputs : listChatSessions(f)
    \/ \E data \in EventInputs : createEvent(data)
    \/ \E id \in IdInputs : getEventById(id)
    \/ \E id \in IdInputs : deleteEvent(id)
    \/ \E f \in EventFilterInputs : listEvents(f)
    \/ \E data \in UserInputs : UserCreate(data)
    \/ \E id \in IdInputs : UserFindById(id)
    \/ \E id \in IdInputs, u \in UserUpdateInputs : UserUpdate(id, u)
    \/ \E id \in IdInputs : UserDelete(id)

Spec == Init /\ [][Next]_vars

(***************************************************************************)
(* The list operations of the lead and chat session stores over every      *)
(* table content the create operations build.                              *)
(***************************************************************************)
InitList == Init /\ focus = "leads"

NextList ==
    \/ Tick
    \/ Return
    \/ \E data \in LeadInputs : createLead(data)
    \/ \E data \in ChatInputs : createChatSession(data)
    \/ \E f \in LeadFilterInputs : listLeads(f)
    \/ \E f \in ChatFilterInputs : listChatSessions(f)

SpecList == InitList /\ [][NextList]_vars

(***************************************************************************)
(* The delete operations of the four stores over the tables the create     *)
(* operations build.                                                       *)
(***************************************************************************)
NextDelete ==
    \/ Return
    \/ \E data \in LeadInputs : createLead(data)
    \/ \E id \in IdInputs : deleteLead(id)
    \/ \E data \in ChatInputs : createChatSession(data)
    \/ \E id \in IdInputs : deleteChatSession(id)
    \/ \E data \in EventInputs : createEvent(data)
    \/ \E id \in IdInputs : deleteEvent(id)
    \/ \E data \in UserInputs : UserCreate(data)
    \/ \E id \in IdInputs : UserDelete(id)

SpecDelete == Init /\ [][NextDelete]_vars

(***************************************************************************)
(* The update operations of the three stores that have one.  The rows are  *)
(* created before the clock moves; the updates happen at any later time,   *)
(* so that updated_at can differ from created_at.                          *)
(***************************************************************************)
NextUpdate ==
    \/ Tick
    \/ Return
    \/ \E data \in LeadInputs : now = 0 /\ createLead(data)
    \/ \E id \in IdInputs, u \in LeadUpdateInputs : updateLead(id, u)
    \/ \E data \in ChatInputs : now = 0 /\ createChatSession(data)
    \/ \E id \in IdInputs, u \in ChatUpdateInputs : updateChatSession(id, u)
    \/ \E data \in UserInputs : now = 0 /\ UserCreate(data)
    \/ \E id \in IdInputs, u \in UserUpdateInputs : UserUpdate(id, u)

InitUpdate == Init /\ focus # "events"

SpecUpdate == InitUpdate /\ [][NextUpdate]_vars

(***************************************************************************)
(* Concurrent create calls through the pool (db/mysql.js query, the        *)
(* create operations of the stores).  Every query() takes a connection of  *)
(* the pool for its one statement and releases it when the statement has   *)
(* run: pool.execute / pool.query.  Which free connection the driver hands *)
(* out is the driver's choice; a new one is opened when none is free.      *)
(* LAST_INSERT_ID() is the id of the last INSERT on the connection that    *)
(* evaluates it, 0 when it has made none.                                  *)
(***************************************************************************)
Callers == 1..NumCallers
ConnIds == 1..MaxConns

CreateOps == {"createLead", "createChatSession", "createEvent"}

TableOf(op) ==
    CASE op = "createLead" -> "lead"
      [] op = "createChatSession" -> "chat"
      [] OTHER -> "event"

\* the data the concurrent callers create with
ConcInputs(op) ==
    CASE op = "createLead" ->
            {[NoLeadData EXCEPT !.microsite = Str("site-a"), !.bhkType = Str("2BHK")],
             [NoLeadData EXCEPT !.microsite = Str("site-b"), !.bhkType = Str("3BHK")]}
      [] op = "createChatSession" ->
            {[NoChatData EXCEPT !.microsite = Str("site-a")],
             [NoChatData EXCEPT !.microsite = Str("site-b")]}
      [] OTHER ->
            {[NoEventData EXCEPT !.type = Str("widget_open"), !.projectId = Str("p1")],
             [NoEventData EXCEPT !.type = Str("lead_submit"), !.projectId = Str("p2")]}

InsertParams(op, data) ==
    CASE op = "createLead" -> LeadInsertParams(data)
      [] op = "createChatSession" -> ChatInsertParams(data)
      [] OTHER -> EventInsertParams(data)

InsertedRow(op, id, p, t) ==
    CASE op = "createLead" -> LeadRow(id, p, t)
      [] op = "createChatSession" -> ChatRow(id, p, t)
      [] OTHER -> EventRow(id, p, t)

NoConcCall ==
    [op |-> "none", data |-> Null, conn |-> 0, insConn |-> 0, insId |-> 0,
     prevBy |-> 0, val |-> "none", row |-> <<>>]

InitConc ==
    /\ Serving
    /\ dialect \in {"pg", "mysql"}
    /\ focus = "create"
    /\ now = 0
    /\ db = [lead |-> {}, chat |-> {}, event |-> {}, user |-> {}, session |-> {}]
    /\ seq = [lead |-> 0, chat |-> 0, event |-> 0, user |-> 0, session |-> 0]
    /\ last = NoCall
    /\ conns = [c \in ConnIds |-> [st |-> "closed", lastId |-> 0, lastBy |-> 0]]
    /\ pc = [p \in Callers |-> "idle"]
    /\ call = [p \in Callers |-> NoConcCall]

\* a request handler calls a create operation
Begin(p, op, data) ==
    /\ pc[p] = "idle"
    /\ pc' = [pc EXCEPT ![p] = "insert"]
    /\ call' = [call EXCEPT ![p] = [NoConcCall EXCEPT !.op = op, !.data = data]]
    /\ UNCHANGED <<sysVars, dialect, focus, now, db, seq, last, conns>>

\* query(): the pool hands the statement a connection, a free one or, when
\* none is free and the limit allows, a new one; otherwise the call waits
Acquire(p, c) ==
    /\ pc[p] \in {"insert", "select"}
    /\ \/ conns[c].st = "free"
       \/ /\ conns[c].st = "closed"
          /\ \A x \in ConnIds : conns[x].st # "free"
    /\ conns' = [conns EXCEPT ![c].st = "busy"]
    /\ pc' = [pc EXCEPT ![p] = IF pc[p] = "insert" THEN "inserting" ELSE "selecting"]
    /\ call' = [call EXCEPT ![p].conn = c,
                            ![p].prevBy = IF pc[p] = "select" THEN conns[c].lastBy ELSE 0]
    /\ UNCHANGED <<sysVars, dialect, focus, now, db, seq, last>>

\* the INSERT runs on connection call[p].conn and the connection is released.
\* PostgreSQL: RETURNING * gives the row and the call returns.  MySQL: the
\* call goes on to its second query.
InsertDone(p) ==
    LET c == call[p].conn
        op == call[p].op
        tb == TableOf(op)
        prm == InsertParams(op, call[p].data)
        id == seq[tb] + 1
        r == InsertedRow(op, id, prm, now)
    IN  /\ pc[p] = "inserting"
        /\ db' = [db EXCEPT ![tb] = @ \cup {r}]
        /\ seq' = [seq EXCEPT ![tb] = id]
        /\ conns' = [conns EXCEPT ![c] = [st |-> "free", lastId |-> id, lastBy |-> p]]
        /\ IF dialect = "pg"
           THEN /\ pc' = [pc EXCEPT ![p] = "done"]
                /\ call' = [call EXCEPT ![p].insConn = c, ![p].insId = id,
                                        ![p].val = "row",
                                        ![p].row = <<IF op = "createChatSession"
                                                     THEN Normalized(Fetched(r))
                                                     ELSE Fetched(r)>>]
           ELSE /\ pc' = [pc EXCEPT ![p] = "select"]
                /\ call' = [call EXCEPT ![p].insConn = c, ![p].insId = id]
        /\ UNCHANGED <<sysVars, dialect, focus, now, last>>

\* MySQL: SELECT * FROM table WHERE id = LAST_INSERT_ID() runs on connection
\* call[p].conn; the call returns result.rows[0] (createChatSession reads
\* the columns of that row, and throws when there is none)
SelectDone(p) ==
    LET c == call[p].conn
        op == call[p].op
        rows == RowWithId(db[TableOf(op)], conns[c].lastId)
    IN  /\ pc[p] = "selecting"
        /\ conns' = [conns EXCEPT ![c].st = "free", ![c].lastBy = p]
        /\ pc' = [pc EXCEPT ![p] = "done"]
        /\ call' = [call EXCEPT
                      ![p].val = IF rows # {} THEN "row"
                                 ELSE IF op = "createChatSession" THEN "error"
                                 ELSE "undefined",
                      ![p].row = IF op = "createChatSession"
                                 THEN TheRow({Normalized(Fetched(x)) : x \in rows})
                                 ELSE TheRow({Fetched(x) : x \in rows})]
        /\ UNCHANGED <<sysVars, dialect, focus, now, db, seq, last>>

NextConc ==
    \/ \E p \in Callers, op \in CreateOps : \E data \in ConcInputs(op) : Begin(p, op, data)
    \/ \E p \in Callers, c \in ConnIds : Acquire(p, c)
    \/ \E p \in Callers : InsertDone(p)
    \/ \E p \in Callers : SelectDone(p)

SpecConc == InitConc /\ [][NextConc]_vars

(***************************************************************************)
(* Properties.                                                             *)
(***************************************************************************)
DoneCallers == {p \in Callers : pc[p] = "done"}

\* the row caller p's own INSERT stored, as its create operation returns it
OwnRow(p) ==
    LET r == InsertedRow(call[p].op, call[p].insId,
                         InsertParams(call[p].op, call[p].data), now)
    IN  IF call[p].op = "createChatSession" THEN Normalized(Fetched(r)) ELSE Fetched(r)

\* C1: every one of several concurrent create calls returns a row, the row is
\* the one the call itself inserted, and no two calls on the same entity
\* return the same id.
C1_ConcurrentCreatesReturnOwnRow ==
    \A p \in DoneCallers :
        /\ call[p].val = "row"
        /\ call[p].row = <<OwnRow(p)>>
        /\ \A q \in DoneCallers \ {p} :
              (call[q].op = call[p].op /\ call[q].val = "row")
                  => call[q].row[1].id # call[p].row[1].id

\* C2: in the MySQL stores the SELECT ... WHERE id = LAST_INSERT_ID() of a
\* create call runs on the connection that ran the call's INSERT, and no
\* other call's statement ran on that connection in between.
C2_SelectOnInsertConnection ==
    \A p \in Callers :
        (dialect = "mysql" /\ pc[p] \in {"selecting", "done"})
            => (call[p].conn = call[p].insConn /\ call[p].prevBy = p)

ListOps == {"listLeads", "listChatSessions", "listEvents"}
UpdateOps == {"updateLead", "updateChatSession", "User.update"}
DeleteOps == {"deleteLead", "deleteChatSession", "deleteEvent", "User.delete"}

\* the filter predicate of a lead filter descriptor: every present filter holds
LeadMatches(f, r) ==
    /\ Truthy(f.microsite) => r.microsite = f.microsite
    /\ Truthy(f.search) =>
          \E c \in {"microsite", "phone", "metadata"} :
              r[c].t = "string" /\ Contains(r[c].s, f.search.s)
    /\ Truthy(f.startDate) => r.created_at >= f.startDate.n
    /\ Truthy(f.endDate) => r.created_at <= f.endDate.n
    /\ Truthy(f.status) => r.status = f.status

\* the filter predicate of a chat session filter descriptor
ChatMatches(f, r) ==
    /\ Truthy(f.microsite) => r.microsite = f.microsite
    /\ Truthy(f.leadId) => r.lead_id = parseInt(f.leadId)
    /\ Truthy(f.projectId) => r.project_id = f.projectId

MatchCount(op, f) ==
    IF op = "listLeads"
    THEN Cardinality({r \in db.lead : LeadMatches(f, r)})
    ELSE Cardinality({r \in db.chat : ChatMatches(f, r)})

\* C3: the total a list call returns is the number of stored rows that
\* satisfy its filters, whatever limit and skip it was called with.
C3_TotalIsMatchCount ==
    (last.op \in {"listLeads", "listChatSessions"} /\ last.val = "list")
        => last.total = MatchCount(last.op, last.arg)

\* a list call with a limit below the number of matching rows returned a
\* shorter page and the full total
C3_Witness ==
    /\ last.op = "listLeads" /\ last.val = "list"
    /\ last.arg.status = Str("new") /\ last.arg.limit = Num(1)
    /\ Len(last.items) = 1 /\ last.total = 2

\* C4: every list operation returns an items page together with the total
\* match count.
C4_ListReturnsItemsAndTotal ==
    (last.op \in ListOps /\ last.val # "error")
        => (last.val = "list" /\ last.total >= Len(last.items))

\* the entity's default page size
DefaultLimit(op) == IF op = "listEvents" THEN 100 ELSE 50

\* C5: a requested limit that is 0, negative or not numeric resolves to the
\* default, one above 1000 resolves to 1000, and a negative or non-numeric
\* skip resolves to 0.
C5_BoundsClamping ==
    last.op \in ListOps =>
        /\ (last.arg.limit.t = "number" /\ last.arg.limit.n <= 0)
              => last.lim = Num(DefaultLimit(last.op))
        /\ last.arg.limit = Str("abc") => last.lim = Num(DefaultLimit(last.op))
        /\ (last.arg.limit.t = "number" /\ last.arg.limit.n > 1000)
              => last.lim = Num(1000)
        /\ (last.arg.skip.t = "number" /\ last.arg.skip.n < 0) => last.off = Num(0)
        /\ last.arg.skip = Str("abc") => last.off = Num(0)

\* C6: the limit bound into the page query is in 1..1000 and the offset is
\* >= 0, absent values give the defaults, and no limit or skip makes the
\* call fail.
C6_BoundLimitInRange ==
    last.op \in ListOps =>
        /\ last.val # "error"
        /\ last.lim.t = "number" /\ last.lim.n >= 1 /\ last.lim.n <= 1000
        /\ last.off.t = "number" /\ last.off.n >= 0
        /\ last.arg.limit = Undefined => last.lim = Num(DefaultLimit(last.op))
        /\ last.arg.skip = Undefined => last.off = Num(0)

\* C7: a delete returns success; when the id had no row the tables are left
\* as they were; and a second delete of the same id changes nothing more.
C7_DeleteIdempotent ==
    [][last'.op \in DeleteOps =>
          /\ last'.val = "true"
          /\ RowWithId(db[OpTable(last'.op)], last'.id) = {} => db' = db
          /\ Deleted(last'.op, db', last'.id) = db']_vars

\* a delete of an id that was never given out, with rows stored
C7_Witness ==
    /\ last.op = "deleteEvent" /\ last.val = "true"
    /\ last.id > seq.event /\ db.event # {}

\* what getById(id) of the store of an update operation returns
GetById(op, id) ==
    CASE op = "updateLead" -> LeadById(id)
      [] op = "updateChatSession" -> ChatById(id)
      [] OTHER -> UserById(id)

NoFields(updates) == \A c \in DOMAIN updates : updates[c] = Undefined

\* C8: an update with no field issues no UPDATE, returns what getById
\* returns and leaves every stored row, updated_at included, unchanged.
C8_EmptyUpdateIsRead ==
    [][(last'.op \in UpdateOps /\ NoFields(last'.arg)) =>
          /\ \A i \in 1..Len(last'.stmts) : last'.stmts[i] # "UPDATE"
          /\ last'.val = RowOrNull(GetById(last'.op, last'.id))
          /\ last'.row = TheRow(GetById(last'.op, last'.id))
          /\ db' = db]_vars

\* an empty update of an existing lead, made after the clock moved past the
\* row's updated_at
C8_Witness ==
    /\ last.op = "updateLead" /\ NoFields(last.arg) /\ last.val = "row"
    /\ last.row[1].updated_at < now

\* the columns an update call provides a value for
GivenCols(op, updates) ==
    LET sets == CASE op = "updateLead" -> LeadSets(updates)
                  [] op = "updateChatSession" -> ChatSets(updates)
                  [] OTHER -> UserSets(updates)
    IN  {sets[i].col : i \in 1..Len(sets)}

\* every row of table tb is in d2 what it was in d1, but for the columns
\* `free` of the row with this id
SameBut(d1, d2, tb, id, free) ==
    /\ \A e \in Entities \ {tb} : d2[e] = d1[e]
    /\ {r.id : r \in d2[tb]} = {r.id : r \in d1[tb]}
    /\ \A r \in d1[tb] : \A r2 \in d2[tb] :
          r2.id = r.id =>
              \A c \in DOMAIN r : (r.id = id /\ c \in free) \/ r2[c] = r[c]

\* C9, as claimed: an update rewrites only the columns its input provides;
\* every other column of the row and every other row keep their values.
C9_UpdateRewritesOnlyGiven ==
    [][(last'.op \in UpdateOps /\ last'.val # "error") =>
          SameBut(db, db', OpTable(last'.op), last'.id,
                  GivenCols(last'.op, last'.arg))]_vars

\* C9, amended: ... every other column of the row except updated_at, and
\* every other row, keep their values.
C9_UpdateRewritesGivenAndUpdatedAt ==
    [][(last'.op \in UpdateOps /\ last'.val # "error") =>
          SameBut(db, db', OpTable(last'.op), last'.id,
                  GivenCols(last'.op, last'.arg) \cup
                    (IF NoFields(last'.arg) THEN {} ELSE {"updated_at"}))]_vars

\* an update of one of two leads that set its status and touched updated_at
C9_Witness ==
    /\ last.op = "updateLead" /\ last.val = "row"
    /\ last.arg.status = Str("qualified")
    /\ last.row[1].status = Str("qualified")
    /\ last.row[1].updated_at > last.row[1].created_at
    /\ Cardinality(db.lead) = 2

\* C10: an update of an id that has no row returns null, raises nothing and
\* leaves the tables as they were, with or without fields.
C10_UpdateAbsentReturnsNull ==
    [][(last'.op \in UpdateOps /\ RowWithId(db[OpTable(last'.op)], last'.id) = {}) =>
          (last'.val = "null" /\ last'.row = <<>> /\ db' = db)]_vars

\* an update with fields of an id that was never given out, with rows stored
C10_Witness ==
    /\ last.op \in UpdateOps /\ last.val = "null"
    /\ ~NoFields(last.arg)
    /\ last.id > seq[OpTable(last.op)]
    /\ db[OpTable(last.op)] # {}

\* createLead's input with only microsite and bhkType
MinimalLead == [NoLeadData EXCEPT !.microsite = Str("site-a"), !.bhkType = Str("2BHK")]

\* the column defaults of a lead, in structured form
HasLeadDefaults(row) ==
    /\ row.status = Str("new")
    /\ row.lead_source = Str("ChatWidget")
    /\ row.metadata = Obj("{}")
    /\ row.conversation = Arr("[]")
    /\ row.id >= 1
    /\ row.created_at >= 0

\* C11: createLead with only microsite and bhkType returns a row with status
\* 'new', lead source 'ChatWidget', metadata the empty object, conversation
\* the empty sequence, an id and a creation time; getLeadById of that id
\* returns the same defaults.
C11_CreateLeadDefaults ==
    (last.op = "createLead" /\ last.arg = MinimalLead) =>
        /\ last.val = "row"
        /\ HasLeadDefaults(last.row[1])
        /\ \A g \in LeadById(last.row[1].id) : HasLeadDefaults(g)

JsonOps ==
    {"createLead", "getLeadById", "updateLead", "listLeads",
     "createChatSession", "getChatSessionById", "updateChatSession", "listChatSessions",
     "createEvent", "getEventById", "listEvents"}

\* a JSON value in structured form: an object, an array or null
Structured(v) == v.t \in {"object", "array", "null"}

StructuredRow(row) == \A c \in DOMAIN row \cap JsonCols : Structured(row[c])

\* C12: every row a store operation returns has its JSON-valued columns in
\* structured form, whichever way the driver delivered them.
C12_ReturnedRowsStructured ==
    last.op \in JsonOps =>
        /\ \A i \in 1..Len(last.row) : StructuredRow(last.row[i])
        /\ \A i \in 1..Len(last.items) : StructuredRow(last.items[i])

\* the JSON-valued field a create or update call provides, per column
JsonFieldOf(op, c) ==
    IF op \in {"createLead", "updateLead", "createChatSession", "updateChatSession"}
       /\ c \in {"metadata", "conversation", "location"}
    THEN last.arg[c]
    ELSE Undefined

\* the row of the table of op that the last call wrote, read back by getById
ReadBack(op, id) ==
    IF op \in {"createLead", "updateLead"} THEN LeadById(id) ELSE ChatById(id)

\* C13: what the stores write for an object, an array or null is read back
\* as that value from either form the driver delivers, and normalizing a
\* second time changes nothing; a conversation given to updateChatSession is
\* the conversation getChatSessionById then returns.
C13_JsonRoundTrip ==
    /\ \A tb \in {"lead", "chat", "event"} : \A r \in db[tb] :
          \A x \in Delivered(dialect, r) :
              /\ StructuredRow(Normalized(x))
              /\ Normalized(x) = Normalized(Fetched(r))
              /\ Normalized(Normalized(x)) = Normalized(x)
    /\ (last.op \in {"updateLead", "updateChatSession"} /\ last.val = "row") =>
          \A g \in ReadBack(last.op, last.id) :
              \A c \in {"metadata", "conversation", "location"} :
                  Structured(JsonFieldOf(last.op, c)) => g[c] = JsonFieldOf(last.op, c)
    /\ (last.op \in {"createLead", "createChatSession"} /\ last.val = "row") =>
          \A g \in ReadBack(last.op, last.row[1].id) :
              \A c \in {"metadata", "conversation", "location"} :
                  JsonFieldOf(last.op, c).t \in {"object", "array"}
                      => g[c] = JsonFieldOf(last.op, c)

\* updateChatSession was given a conversation on the MySQL store set and
\* getChatSessionById has a row to return for that id
C13_Witness ==
    /\ dialect = "mysql"
    /\ last.op = "updateChatSession" /\ last.val = "row"
    /\ last.arg.conversation = Arr("[{\"role\":\"user\",\"text\":\"hi\"}]")
    /\ \E g \in ChatById(last.id) : g.conversation = last.arg.conversation

(***************************************************************************)
(* The db modules (db/mysql.js, db/postgresql.js): connect, query, close.  *)
(* env.url is the kind of connection string the back end reads             *)
(* (DATABASE_URL || MYSQL_URL || MYSQL_URI, DATABASE_URL ||                *)
(* POSTGRESQL_URI): not set, a placeholder template, a URL of the back     *)
(* end, a JSON text, or any other text.  env.discrete says whether         *)
(* MYSQL_HOST or MYSQL_USER is set.                                        *)
(***************************************************************************)
UrlKinds == {"unset", "placeholder", "url", "json", "other"}

EnvInputs ==
    [url : UrlKinds, discrete : BOOLEAN, mode : {"production", "development"},
     initSchema : BOOLEAN]

\* connectMySQL up to createPool: "config" when a pool configuration is
\* built, "ConfigError" when it throws
MysqlConfig(e) ==
    IF e.url = "unset" THEN "ConfigError"
    ELSE IF e.url = "placeholder" THEN "ConfigError"
    ELSE IF e.url = "url" THEN "config"
    ELSE IF e.discrete THEN "config"
    ELSE IF e.url = "json" THEN "config"
    ELSE "ConfigError"

\* connectPostgreSQL up to new Pool: only an unset connection string throws
PgConfig(e) == IF e.url = "unset" THEN "ConfigError" ELSE "config"

ConnectConfig(d, e) == IF d = "pg" THEN PgConfig(e) ELSE MysqlConfig(e)

\* a connect that builds a configuration whatever pool the module holds
ConnectAnew(d, e, held) == ConnectConfig(d, e)

\* if (pool) return pool; else the configuration
ConnectEntry(d, e, held) == IF held # 0 THEN "held" ELSE ConnectConfig(d, e)

\* the probe (pool.connect / pool.getConnection) succeeds or fails; a
\* PostgreSQL pool built on a string that is no URL never connects
ProbeOutcomes(d, e) == IF d = "pg" /\ e.url # "url" THEN {FALSE} ELSE {TRUE, FALSE}

NoDbCall == [op |-> "none", val |-> "none", pool |-> 0]

\* connect(), its synchronous part: the held pool is returned, or the
\* configuration is rejected, or a pool is created and the probe awaited
connect(p) ==
    LET entry == ConnectEntry(dialect, env, pool)
    IN  /\ pc[p] = "idle"
        /\ entry = "config" => stats.created < MaxPools
        /\ CASE entry = "held" ->
                  /\ pc' = [pc EXCEPT ![p] = "done"]
                  /\ call' = [call EXCEPT ![p] = [op |-> "connect", val |-> "pool", pool |-> pool]]
                  /\ stats' = [stats EXCEPT !.returned = @ \cup {pool}]
                  /\ UNCHANGED pool
             [] entry = "ConfigError" ->
                  /\ pc' = [pc EXCEPT ![p] = "done"]
                  /\ call' = [call EXCEPT ![p] = [op |-> "connect", val |-> "ConfigError", pool |-> 0]]
                  /\ UNCHANGED <<pool, stats>>
             [] OTHER ->
                  /\ pool' = stats.created + 1
                  /\ stats' = [stats EXCEPT !.created = @ + 1]
                  /\ pc' = [pc EXCEPT ![p] = "probing"]
                  /\ call' = [call EXCEPT ![p] = [op |-> "connect", val |-> "none", pool |-> 0]]
        /\ UNCHANGED <<dialect, focus, now, db, seq, last, conns, env, schema, ran, boot>>

\* connect(), after the probe: return pool (the module variable as it is
\* then), or the probe's error is thrown and the variable is left as it is
probed(p, ok) ==
    /\ pc[p] = "probing"
    /\ ok \in ProbeOutcomes(dialect, env)
    /\ pc' = [pc EXCEPT ![p] = "done"]
    /\ IF ok
       THEN /\ call' = [call EXCEPT ![p].val = IF pool = 0 THEN "null" ELSE "pool",
                                    ![p].pool = pool]
            /\ stats' = [stats EXCEPT !.probes = @ + 1,
                                      !.returned = IF pool = 0 THEN @ ELSE @ \cup {pool}]
       ELSE /\ call' = [call EXCEPT ![p].val = "ConnectError"]
            /\ stats' = [stats EXCEPT !.probes = @ + 1]
    /\ UNCHANGED <<dialect, focus, now, db, seq, last, conns, env, pool, schema, ran, boot>>

\* some close() has called end() on the pool and is waiting for it
Ending(k) == \E q \in Callers : pc[q] = "closing" /\ call[q].pool = k

\* close(): if (pool) { await pool.end(); ... }, else nothing.  From here on
\* no pool counts as returned by connect.  end() on a pool that is already
\* ending: the PostgreSQL pool rejects it ('Called end on pool more than
\* once'), the MySQL pool ends its connections once more and resolves.
close(p) ==
    /\ pc[p] = "idle"
    /\ stats' = [stats EXCEPT !.returned = {}]
    /\ IF pool = 0
       THEN /\ pc' = [pc EXCEPT ![p] = "done"]
            /\ call' = [call EXCEPT ![p] = [op |-> "close", val |-> "closed", pool |-> 0]]
       ELSE IF dialect = "pg" /\ Ending(pool)
       THEN /\ pc' = [pc EXCEPT ![p] = "done"]
            /\ call' = [call EXCEPT ![p] = [op |-> "close", val |-> "error", pool |-> pool]]
       ELSE /\ pc' = [pc EXCEPT ![p] = "closing"]
            /\ call' = [call EXCEPT ![p] = [op |-> "close", val |-> "none", pool |-> pool]]
    /\ UNCHANGED <<dialect, focus, now, db, seq, last, conns, env, pool, schema, ran, boot>>

\* close(), after pool.end(): pool = null, whatever pool the variable holds by then
closed(p) ==
    /\ pc[p] = "closing"
    /\ pool' = 0
    /\ stats' = [stats EXCEPT !.ended = @ \cup {call[p].pool}]
    /\ pc' = [pc EXCEPT ![p] = "done"]
    /\ call' = [call EXCEPT ![p].val = "closed"]
    /\ UNCHANGED <<dialect, focus, now, db, seq, last, conns, env, schema, ran, boot>>

\* query(text, params) of the db module: getPool() throws when there is no pool
dbQuery(p) ==
    /\ pc[p] = "idle"
    /\ pc' = [pc EXCEPT ![p] = "done"]
    /\ call' = [call EXCEPT ![p] = [op |-> "query",
                                    val |-> IF pool = 0 THEN "NotConnected" ELSE "result",
                                    pool |-> pool]]
    /\ UNCHANGED <<dialect, focus, now, db, seq, last, conns, env, pool, stats, schema, ran, boot>>

\* the caller takes the outcome of its call
taken(p) ==
    /\ pc[p] = "done"
    /\ pc' = [pc EXCEPT ![p] = "idle"]
    /\ call' = [call EXCEPT ![p] = NoDbCall]
    /\ UNCHANGED <<dialect, focus, now, db, seq, last, conns, sysVars>>

NotBooting == [pc |-> "none", storageType |-> "file", schemaError |-> "none"]

InitConnect ==
    /\ dialect \in {"pg", "mysql"}
    /\ env \in EnvInputs
    /\ env.mode = "development" /\ ~env.initSchema
    /\ pool = 0
    /\ stats = [created |-> 0, probes |-> 0, returned |-> {}, ended |-> {}]
    /\ pc = [p \in Callers |-> "idle"]
    /\ call = [p \in Callers |-> NoDbCall]
    /\ focus = "db"
    /\ now = 0
    /\ db = [lead |-> {}, chat |-> {}, event |-> {}, user |-> {}, session |-> {}]
    /\ seq = [lead |-> 0, chat |-> 0, event |-> 0, user |-> 0, session |-> 0]
    /\ last = NoCall
    /\ conns = <<>>
    /\ schema = <<>>
    /\ ran = <<>>
    /\ boot = NotBooting

NextConnect ==
    \/ \E p \in Callers : connect(p)
    \/ \E p \in Callers, ok \in BOOLEAN : probed(p, ok)
    \/ \E p \in Callers : close(p)
    \/ \E p \in Callers : closed(p)
    \/ \E p \in Callers : dbQuery(p)
    \/ \E p \in Callers : taken(p)

SpecConnect == InitConnect /\ [][NextConnect]_vars

ValidDescriptor(e) == e.url = "url" \/ e.discrete

\* C15: connect fails with a configuration error, and leaves the module
\* with no pool, exactly when no valid connection descriptor is present; a
\* descriptor of discrete fields alone is valid (stated for connectMySQL).
C15_ConfigErrorIffNoDescriptor ==
    \A p \in Callers :
        (dialect = "mysql" /\ pc[p] = "done" /\ call[p].op = "connect") =>
            /\ (call[p].val = "ConfigError") <=> ~ValidDescriptor(env)
            /\ call[p].val = "ConfigError" => pool = 0

(***************************************************************************)
(* The pool at its limit.  Some connections are checked out by statements  *)
(* that never finish ("held"); the callers' own statements finish.  The    *)
(* PostgreSQL pool is created with connectionTimeoutMillis: 10000, so a    *)
(* request for a connection that gets none is rejected; the MySQL pool is  *)
(* created with waitForConnections: true, queueLimit: 0 and no acquisition *)
(* timeout, so the request stays queued.                                   *)
(***************************************************************************)
\* a caller is waiting for the pool to hand it a connection
Waiting(p) == pc[p] \in {"insert", "select"}

\* no connection is free and none can be opened
Exhausted == \A c \in ConnIds : conns[c].st \in {"busy", "held"}

InitPool ==
    /\ Serving
    /\ dialect \in {"pg", "mysql"}
    /\ focus = "pool"
    /\ now = 0
    /\ db = [lead |-> {}, chat |-> {}, event |-> {}, user |-> {}, session |-> {}]
    /\ seq = [lead |-> 0, chat |-> 0, event |-> 0, user |-> 0, session |-> 0]
    /\ last = NoCall
    /\ \E held \in SUBSET ConnIds :
          conns = [c \in ConnIds |->
                     [st |-> IF c \in held THEN "held" ELSE "closed",
                      lastId |-> 0, lastBy |-> 0]]
    /\ pc = [p \in Callers |-> "idle"]
    /\ call = [p \in Callers |-> NoConcCall]

\* PostgreSQL: the pool rejects the request after connectionTimeoutMillis
AcquireTimeout(p) ==
    /\ dialect = "pg"
    /\ Waiting(p)
    /\ Exhausted
    /\ pc' = [pc EXCEPT ![p] = "done"]
    /\ call' = [call EXCEPT ![p].val = "error"]
    /\ UNCHANGED <<sysVars, dialect, focus, now, db, seq, last, conns>>

NextPool ==
    \/ \E p \in Callers, op \in CreateOps : \E data \in ConcInputs(op) : Begin(p, op, data)
    \/ \E p \in Callers, c \in ConnIds : Acquire(p, c)
    \/ \E p \in Callers : InsertDone(p)
    \/ \E p \in Callers : SelectDone(p)
    \/ \E p \in Callers : AcquireTimeout(p)

\* the pool serves a request when a connection is there for it, the timer
\* of a rejected request fires, and the callers' statements finish
SpecPool ==
    /\ InitPool /\ [][NextPool]_vars
    /\ \A p \in Callers :
          /\ SF_vars(\E c \in ConnIds : Acquire(p, c))
          /\ WF_vars(AcquireTimeout(p))
          /\ WF_vars(InsertDone(p))
          /\ WF_vars(SelectDone(p))

\* C16: a store call that needs a connection does not wait forever: it
\* gets one or fails, even if the connections in use are never released.
C16_NoIndefiniteWait ==
    \A p \in Callers : Waiting(p) ~> ~Waiting(p)

(***************************************************************************)
(* initializeSchema.  The schema text is the sequence of its segments      *)
(* between semicolons (schema.split(';')); a segment is the sequence of    *)
(* its lines, each a line comment "--", the opening of a block comment     *)
(* "/*", a blank line "" or a line of SQL "sql".                           *)
(***************************************************************************)
SegmentShapes ==
    {<<>>, <<"">>, <<"--">>, <<"/*">>, <<"sql">>, <<"", "sql">>,
     <<"--", "sql">>, <<"/*", "sql">>, <<"sql", "--">>}

SchemaTexts == UNION {[1..n -> SegmentShapes] : n \in 0..MaxSegments}

\* s.trim(): leading and trailing white space, blank lines included, goes
RECURSIVE TrimStart(_)
TrimStart(seg) ==
    IF seg # <<>> /\ Head(seg) = "" THEN TrimStart(Tail(seg)) ELSE seg

RECURSIVE TrimEnd(_)
TrimEnd(seg) ==
    IF seg # <<>> /\ seg[Len(seg)] = ""
    THEN TrimEnd(SubSeq(seg, 1, Len(seg) - 1))
    ELSE seg

Trim(seg) == TrimEnd(TrimStart(seg))

\* trimmed.startsWith(prefix)
StartsWith(seg, prefix) == seg # <<>> /\ Head(seg) = prefix

\* the segment has a line of SQL in it
HasSql(seg) == \E k \in 1..Len(seg) : seg[k] = "sql"

\* the filter of initializeSchema
Kept(seg) ==
    LET trimmed == Trim(seg)
    IN  /\ Len(trimmed) > 0
        /\ ~StartsWith(trimmed, "--")
        /\ ~StartsWith(trimmed, "/*")

\* const statements = schema.split(';').map(...).filter(...): the segments
\* that are executed, by their position in the text
Statements(text) ==
    SelectSeq([i \in 1..Len(text) |-> i], LAMBDA i : Kept(text[i]))

\* what query(statement) gives: "ok", or an error by what its message
\* includes.  PostgreSQL words a duplicate definition '... already exists',
\* MySQL '... already exists' or 'Duplicate ...'.
StatementOutcomes(d) ==
    IF d = "pg" THEN {"ok", "already exists", "other"}
    ELSE {"ok", "already exists", "Duplicate", "other"}

\* every error is skipped
SkippedAlways(d, m) == m # "ok"

\* the catch of the loop: continue, or throw error
Skipped(d, m) ==
    IF d = "pg" THEN m = "already exists"
    ELSE m \in {"already exists", "Duplicate"}

Thrown(d, m) == m # "ok" /\ ~Skipped(d, m)

\* initializeSchema(): read and split the text
schemaBegin ==
    /\ boot.pc = "none"
    /\ boot' = [boot EXCEPT !.pc = "schema"]
    /\ ran' = <<>>
    /\ UNCHANGED <<dialect, focus, now, db, seq, last, conns, pc, call,
                   env, pool, stats, schema>>

\* one turn of the loop: await query(statement), and the catch
schemaStatement(m) ==
    LET statements == Statements(schema)
        i == Len(ran) + 1
    IN  /\ boot.pc \in {"schema", "bootSchema"}
        /\ i <= Len(statements)
        /\ m \in StatementOutcomes(dialect)
        /\ ran' = Append(ran, [seg |-> statements[i], res |-> m])
        /\ boot' = IF Thrown(dialect, m)
                   THEN [boot EXCEPT !.schemaError = m,
                                     !.pc = IF boot.pc = "schema"
                                            THEN "schemaFailed" ELSE "select"]
                   ELSE boot
        /\ UNCHANGED <<dialect, focus, now, db, seq, last, conns, pc, call,
                       env, pool, stats, schema>>

\* the loop is through: initializeSchema returns
schemaEnd ==
    /\ boot.pc \in {"schema", "bootSchema"}
    /\ Len(ran) = Len(Statements(schema))
    /\ boot' = [boot EXCEPT !.pc = IF boot.pc = "schema"
                                   THEN "schemaDone" ELSE "select"]
    /\ UNCHANGED <<dialect, focus, now, db, seq, last, conns, pc, call,
                   env, pool, stats, schema, ran>>

InitSchema ==
    /\ dialect \in {"pg", "mysql"}
    /\ env = [url |-> "url", discrete |-> FALSE, mode |-> "development", initSchema |-> FALSE]
    /\ pool = 1
    /\ stats = [created |-> 1, probes |-> 1, returned |-> {1}, ended |-> {}]
    /\ pc = [p \in Callers |-> "idle"]
    /\ call = [p \in Callers |-> NoDbCall]
    /\ focus = "schema"
    /\ now = 0
    /\ db = [lead |-> {}, chat |-> {}, event |-> {}, user |-> {}, session |-> {}]
    /\ seq = [lead |-> 0, chat |-> 0, event |-> 0, user |-> 0, session |-> 0]
    /\ last = NoCall
    /\ conns = <<>>
    /\ schema \in SchemaTexts
    /\ ran = <<>>
    /\ boot = NotBooting

NextSchema ==
    \/ schemaBegin
    \/ \E m \in StatementOutcomes(dialect) : schemaStatement(m)
    \/ schemaEnd

SpecSchema == InitSchema /\ [][NextSchema]_vars

\* initializeSchema has returned or thrown
SchemaSettled == boot.pc \in {"schemaDone", "schemaFailed"}

\* C17: the statements are executed one at a time in text order; a
\* statement that fails with an 'already exists' / duplicate-definition
\* error is skipped and the statements after it are still executed; any
\* other error makes initializeSchema fail with that error and no
\* statement after it is executed.
C17_SchemaLoopOrderAndErrors ==
    LET statements == Statements(schema)
    IN  /\ Len(ran) <= Len(statements)
        /\ \A i \in 1..Len(ran) : ran[i].seg = statements[i]
        /\ \A i \in 1..Len(ran) :
              /\ (ran[i].res \in {"already exists", "Duplicate"} /\ i = Len(ran))
                   => boot.pc = IF i < Len(statements) THEN "schema"
                                ELSE IF SchemaSettled THEN "schemaDone" ELSE "schema"
              /\ ran[i].res = "other"
                   => /\ i = Len(ran)
                      /\ boot.pc = "schemaFailed"
                      /\ boot.schemaError = "other"
        /\ boot.pc = "schemaDone" => Len(ran) = Len(statements)
        /\ boot.pc = "schemaFailed" => ran # <<>> /\ ran[Len(ran)].res = "other"

\* a run where a duplicate-definition error was skipped, a later statement
\* was executed and failed otherwise, leaving a statement unexecuted
C17_Witness ==
    /\ boot.pc = "schemaFailed"
    /\ Len(Statements(schema)) = 3
    /\ Len(ran) = 2
    /\ ran[1].res \in {"already exists", "Duplicate"}
    /\ ran[2].res = "other"

\* C18: every SQL statement of the text is executed exactly once, and
\* nothing that is only comment or blank; a statement preceded by a comment
\* line in its segment is still executed.
C18_EveryStatementOnce ==
    boot.pc = "schemaDone" =>
        \A i \in 1..Len(schema) :
            Cardinality({k \in 1..Len(ran) : ran[k].seg = i})
                = IF HasSql(schema[i]) THEN 1 ELSE 0

(***************************************************************************)
(* bootstrap() of server.js.  It is caller 1 of the database module; it    *)
(* imports postgresql.js, whatever else the repository holds.              *)
(***************************************************************************)
\* schema texts of plain statements: bootstrap depends on the text only
\* through the statements the filter keeps
BootTexts == {t \in SchemaTexts : \A i \in 1..Len(t) : t[i] = <<"sql">>}

\* validateEnvironment's error is logged at most; let storageType = "file";
\* if (process.env.DATABASE_URL || process.env.POSTGRESQL_URI)
bootStart ==
    /\ boot.pc = "start"
    /\ boot' = [boot EXCEPT !.storageType = "file",
                            !.pc = IF env.url # "unset" THEN "connecting" ELSE "listen"]
    /\ UNCHANGED <<dialect, focus, now, db, seq, last, conns, pc, call,
                   env, pool, stats, schema, ran>>

\* await connectPostgreSQL() has settled: on to the schema or to the
\* selection of the storage, or into the catch that sets storageType = "file"
bootConnected ==
    /\ boot.pc = "connecting"
    /\ pc[1] = "done"
    /\ IF call[1].val = "pool"
       THEN /\ boot' = [boot EXCEPT !.pc =
                          IF env.initSchema \/ env.mode # "production"
                          THEN "bootSchema" ELSE "select"]
            /\ ran' = <<>>
       ELSE /\ boot' = [boot EXCEPT !.storageType = "file", !.pc = "listen"]
            /\ UNCHANGED ran
    /\ UNCHANGED <<dialect, focus, now, db, seq, last, conns, pc, call,
                   env, pool, stats, schema>>

\* storageType = "postgresql"; the cache that follows is optional
bootSelect ==
    /\ boot.pc = "select"
    /\ boot' = [boot EXCEPT !.storageType = "postgresql", !.pc = "listen"]
    /\ UNCHANGED <<dialect, focus, now, db, seq, last, conns, pc, call,
                   env, pool, stats, schema, ran>>

\* server.listen(config.port, ...)
bootListen ==
    /\ boot.pc = "listen"
    /\ boot' = [boot EXCEPT !.pc = "listening"]
    /\ UNCHANGED <<dialect, focus, now, db, seq, last, conns, pc, call,
                   env, pool, stats, schema, ran>>

\* await connectPostgreSQL(), its two steps
bootConnect == boot.pc = "connecting" /\ connect(1)

bootProbed(ok) == boot.pc = "connecting" /\ probed(1, ok)

InitBoot ==
    /\ dialect = "pg"
    /\ env \in EnvInputs
    /\ pool = 0
    /\ stats = [created |-> 0, probes |-> 0, returned |-> {}, ended |-> {}]
    /\ pc = [p \in Callers |-> "idle"]
    /\ call = [p \in Callers |-> NoDbCall]
    /\ focus = "boot"
    /\ now = 0
    /\ db = [lead |-> {}, chat |-> {}, event |-> {}, user |-> {}, session |-> {}]
    /\ seq = [lead |-> 0, chat |-> 0, event |-> 0, user |-> 0, session |-> 0]
    /\ last = NoCall
    /\ conns = <<>>
    /\ schema \in BootTexts
    /\ ran = <<>>
    /\ boot = [pc |-> "start", storageType |-> "file", schemaError |-> "none"]

NextBoot ==
    \/ bootStart
    \/ bootConnect
    \/ \E ok \in BOOLEAN : bootProbed(ok)
    \/ bootConnected
    \/ \E m \in StatementOutcomes(dialect) : schemaStatement(m)
    \/ schemaEnd
    \/ bootSelect
    \/ bootListen

SpecBoot == InitBoot /\ [][NextBoot]_vars

\* C19: after a failure of initializeSchema that is not of the 'already
\* exists' class, bootstrap does not select relational storage and does
\* not start serving.
C19_SchemaFailureIsFatal ==
    boot.schemaError # "none" =>
        /\ boot.storageType # "postgresql"
        /\ boot.pc # "listening"

\* C20: when connecting fails at startup, bootstrap goes on to listen with
\* file storage only in development mode; in production mode it does not.
C20_ConnectFailureFatalInProduction ==
    (call[1].op = "connect" /\ call[1].val \in {"ConfigError", "ConnectError"}
        /\ boot.pc \in {"listen", "listening"})
        => env.mode = "development"

(***************************************************************************)
(* Statements that fail in the driver (connection lost, deadlock, ...),    *)
(* whatever the statement says.  query() logs the error and throws it      *)
(* again; the store operations await their statements one after the other  *)
(* with no try / catch.  In this section `call` is the driver's log of the *)
(* store call in hand: the statements it was given and what each gave.     *)
(***************************************************************************)
FaultKinds == {"connection lost", "deadlock"}

\* a query() that returns normally whatever the driver gave
QuerySwallowed(res) == "ok"

\* query(): the driver's result is returned, its error thrown again
QueryResult(res) == res

\* the statements a lead store operation issues when none fails
LeadPlan(d, op, arg) ==
    CASE op = "createLead" -> IF d = "pg" THEN <<"INSERT">> ELSE <<"INSERT", "SELECT">>
      [] op = "getLeadById" -> <<"SELECT">>
      [] op = "deleteLead" -> <<"DELETE">>
      [] op = "listLeads" -> <<"COUNT", "SELECT">>
      [] OTHER -> IF LeadSets(arg) = <<>> THEN <<"SELECT">>
                  ELSE IF d = "pg" THEN <<"UPDATE">> ELSE <<"UPDATE", "SELECT">>

\* await query(plan[i]); await query(plan[i+1]); ...: the driver fails
\* statement k with error e.  The log of what the driver was given, and
\* what the operation threw ("none": it went through).
RECURSIVE RunFrom(_, _, _, _)
RunFrom(plan, i, k, e) ==
    IF i > Len(plan) THEN [log |-> <<>>, thrown |-> "none"]
    ELSE LET res == IF i = k THEN e ELSE "ok"
             entry == [at |-> i, stmt |-> plan[i], res |-> res]
             rest == RunFrom(plan, i + 1, k, e)
         IN  IF QueryResult(res) # "ok"
             THEN [log |-> <<entry>>, thrown |-> QueryResult(res)]
             ELSE [log |-> <<entry>> \o rest.log, thrown |-> rest.thrown]

\* the lead store calls a statement is made to fail in: op, id, argument
FaultCalls ==
    {<<"createLead", 0, data>> : data \in {d \in LeadInputs : LeadInsertOk(LeadInsertParams(d))}}
      \cup {<<"getLeadById", id, Null>> : id \in IdInputs}
      \cup {<<"deleteLead", id, Null>> : id \in IdInputs}
      \cup {<<"updateLead", id, u>> : id \in IdInputs, u \in LeadUpdateInputs}
      \cup {<<"listLeads", 0, NoLeadFilters>>}

\* the tables once the first statement of the call has run
FirstStatementDone(op, id, arg) ==
    CASE op = "createLead" ->
            [db EXCEPT !.lead = @ \cup {LeadRow(seq.lead + 1, LeadInsertParams(arg), now)}]
      [] op = "deleteLead" -> Deleted("deleteLead", db, id)
      [] op = "updateLead" /\ LeadSets(arg) # <<>> ->
            [db EXCEPT !.lead = UpdatedRows(dialect, db.lead, id, LeadSets(arg), now)]
      [] OTHER -> db

\* a lead store call whose k-th statement fails in the driver with e
leadCallFailing(c, k, e) ==
    LET op == c[1]
        run == RunFrom(LeadPlan(dialect, op, c[3]), 1, k, e)
        first == run.log[1].res = "ok"
    IN  /\ Idle /\ focus = "leads"
        /\ k \in 1..Len(LeadPlan(dialect, op, c[3]))
        /\ op = "createLead" => Created < MaxCreates
        /\ \A r \in FirstStatementDone(op, c[2], c[3]).lead : LeadRowOk(r)
        /\ db' = IF first THEN FirstStatementDone(op, c[2], c[3]) ELSE db
        /\ seq' = IF first /\ op = "createLead" THEN [seq EXCEPT !.lead = @ + 1] ELSE seq
        /\ call' = run.log
        /\ last' = Call(op, c[2], c[3],
                        IF run.thrown = "none" THEN "returned" ELSE run.thrown,
                        <<>>, <<>>, -1, MapSeq(run.log, LAMBDA x : x.stmt),
                        Undefined, Undefined)
        /\ UNCHANGED <<sysVars, dialect, focus, now, conns, pc>>

\* the caller takes what its call gave; the driver's log starts anew
Settle ==
    /\ ~Idle
    /\ last' = NoCall
    /\ call' = <<>>
    /\ UNCHANGED <<sysVars, dialect, focus, now, db, seq, conns, pc>>

InitFault == Init /\ focus = "leads"

NextFault ==
    \/ Settle
    \/ \E data \in LeadInputs : createLead(data)
    \/ \E c \in FaultCalls, k \in 1..2, e \in FaultKinds : leadCallFailing(c, k, e)

SpecFault == InitFault /\ [][NextFault]_vars

\* C21: when a statement of a store call fails, the call fails with that
\* error and never returns a normal result, no statement is issued after
\* the failed one, and no statement is issued twice.
C21_StatementFailurePropagates ==
    /\ \A i \in 1..Len(call) :
          call[i].res # "ok" => /\ last.val = call[i].res
                                /\ i = Len(call)
    /\ \A i, j \in 1..Len(call) : call[i].at = call[j].at => i = j
    /\ Len(call) = Len(last.stmts) \/ call = <<>>

\* an updateLead of the MySQL store whose UPDATE ran and whose SELECT failed
C21_Witness ==
    /\ last.op = "updateLead"
    /\ Len(call) = 2
    /\ call[1].res = "ok"
    /\ call[2].res = "deadlock"
    /\ last.val = "deadlock"

(***************************************************************************)
(* The two store sets side by side.                                        *)
(***************************************************************************)
\* what listLeads / listChatSessions of store set d can return for filters f
\* on the tables as they are
ListOutcomes(d, op, f) ==
    LET rows == db[OpTable(op)]
        w == IF op = "listLeads" THEN LeadWhere(d, f) ELSE ChatWhere(d, f)
        q == PageQuery(d, w, ListBounds(d, f))
    IN  IF PageQueryOk(q)
        THEN {[val |-> "list",
               items |-> MapSeq(Page(ord, BoundLimit(q).n, BoundOffset(q).n),
                                LAMBDA r : Normalized(Fetched(r))),
               total |-> CountQuery(rows, w)] :
                 ord \in OrderedDesc(Matching(rows, q.conds, q.params))}
        ELSE {[val |-> "error", items |-> <<>>, total |-> -1]}

\* C22: on the same table content and with the same arguments, a list
\* operation of the PostgreSQL store set and the corresponding one of the
\* MySQL store set return the same result.
C22_StoreSetsEquivalent ==
    last.op \in {"listLeads", "listChatSessions"} =>
        /\ [val |-> last.val, items |-> last.items, total |-> last.total]
              \in ListOutcomes(dialect, last.op, last.arg)
        /\ ListOutcomes("pg", last.op, last.arg) = ListOutcomes("mysql", last.op, last.arg)

\* the rows of the table that satisfy the filters of a list call
MatchingRows(op, f) ==
    IF op = "listLeads"
    THEN {r \in db.lead : LeadMatches(f, r)}
    ELSE {r \in db.chat : ChatMatches(f, r)}

\* C23: the page of a list call with effective limit n and offset m is the
\* rows at positions m .. m+n-1 of the matching rows ordered by creation
\* time descending; the limit is bound to the row-count operand and the
\* skip to the offset operand.
C23_PageIsWindowOfOrderedMatches ==
    (last.op \in {"listLeads", "listChatSessions"} /\ last.val = "list") =>
        LET b == ListBounds(dialect, last.arg)
            n == b.limit.n
            m == b.skip.n
        IN  /\ last.lim = b.limit
            /\ last.off = b.skip
            /\ \E ord \in OrderedDesc(MatchingRows(last.op, last.arg)) :
                  last.items = [i \in 1..Max(0, Min(Len(ord) - m, n)) |->
                                  Normalized(Fetched(ord[m + i]))]

\* a MySQL page of two rows: limit 2 at offset 0, where the operands the
\* other way round would give no row
C23_Witness ==
    /\ dialect = "mysql"
    /\ last.op = "listLeads" /\ last.val = "list"
    /\ last.arg.limit = Num(2) /\ last.arg.skip = Undefined
    /\ Len(last.items) = 2
    /\ last.items[1].created_at >= last.items[2].created_at

(***************************************************************************)
(* The Session model and the rest of the User model (PostgreSQL only).     *)
(***************************************************************************)
\* crypto.randomBytes(32).toString('hex'): any token
Tokens == {"t1", "t2"}

\* the userId and expiresAt values Session.create is called with
SessionUserInputs == {Null, Num(1), Num(2)}
ExpiryInputs == 0..(MaxTime + 1)

SessionRow(id, userId, token, expiresAt, t) ==
    [id |-> id, user_id |-> userId, token |-> token, expires_at |-> expiresAt,
     created_at |-> t]

\* sessions: user_id REFERENCES users(id), token UNIQUE NOT NULL
SessionInsertOk(r, d) ==
    /\ IsNull(r.user_id) \/ \E u \in d.user : r.user_id = Num(u.id)
    /\ \A x \in d.session : x.token # r.token

\* Session.create: INSERT ... RETURNING id, user_id, token, expires_at, created_at
SessionCreate(userId, expiresAt) ==
    \E token \in Tokens :
        LET r == SessionRow(seq.session + 1, userId, token, expiresAt, now)
        IN  /\ Idle /\ focus = "users"
            /\ seq.session < MaxCreates
            /\ IF SessionInsertOk(r, db)
               THEN /\ db' = [db EXCEPT !.session = @ \cup {r}]
                    /\ seq' = [seq EXCEPT !.session = @ + 1]
                    /\ last' = Call("Session.create", 0, userId, "row", <<r>>, <<>>, -1,
                                    <<"INSERT">>, Undefined, Undefined)
               ELSE /\ UNCHANGED <<db, seq>>
                    /\ last' = Call("Session.create", 0, userId, "error", <<>>, <<>>, -1,
                                    <<"INSERT">>, Undefined, Undefined)
            /\ UNCHANGED <<sysVars, dialect, focus, now, conns, pc, call>>

\* a session that is still found when the clock has reached its expiry
UnexpiredOrNow(r, t) == r.expires_at >= t

\* s.expires_at > NOW()
Unexpired(r, t) == r.expires_at > t

\* SELECT s.*, u.username, u.email, u.role FROM sessions s JOIN users u
\* ON s.user_id = u.id WHERE s.token = $1 AND s.expires_at > NOW()
SessionByToken(token) ==
    {[id |-> r.id, user_id |-> r.user_id, token |-> r.token,
      expires_at |-> r.expires_at, created_at |-> r.created_at,
      username |-> u.username, email |-> u.email, role |-> u.role] :
        <<r, u>> \in {x \in db.session \X db.user :
                        /\ x[1].user_id = Num(x[2].id)
                        /\ x[1].token = token
                        /\ Unexpired(x[1], now)}}

\* Session.findByToken: result.rows[0] || null
SessionFindByToken(token) ==
    /\ Idle /\ focus = "users"
    /\ last' = Call("Session.findByToken", 0, Str(token),
                    RowOrNull(SessionByToken(token)), TheRow(SessionByToken(token)),
                    <<>>, -1, <<"SELECT">>, Undefined, Undefined)
    /\ UNCHANGED <<sysVars, dialect, focus, now, db, seq, conns, pc, call>>

\* SELECT id, username, password_hash, email, role, created_at, updated_at
\* FROM users WHERE username = $1: every column of the row
UserByUsername(username) == {r \in db.user : r.username = username}

\* User.findByUsername: result.rows[0] || null
UserFindByUsername(username) ==
    /\ Idle /\ focus = "users"
    /\ last' = Call("User.findByUsername", 0, username,
                    RowOrNull(UserByUsername(username)), TheRow(UserByUsername(username)),
                    <<>>, -1, <<"SELECT">>, Undefined, Undefined)
    /\ UNCHANGED <<sysVars, dialect, focus, now, db, seq, conns, pc, call>>

\* User.findAll: the public columns of every user, ORDER BY created_at DESC
UserFindAll ==
    /\ Idle /\ focus = "users"
    /\ \E ord \in OrderedDesc(db.user) :
          last' = Call("User.findAll", 0, Null, "list", <<>>,
                       MapSeq(ord, LAMBDA r : Project(r, UserPublicCols)),
                       -1, <<"SELECT">>, Undefined, Undefined)
    /\ UNCHANGED <<sysVars, dialect, focus, now, db, seq, conns, pc, call>>

InitSession == Init /\ focus = "users"

NextSession ==
    \/ Tick
    \/ Return
    \/ \E data \in UserInputs : UserCreate(data)
    \/ \E id \in IdInputs : UserDelete(id)
    \/ \E u \in {Str("u1"), Str("u2")} : UserFindByUsername(u)
    \/ UserFindAll
    \/ \E userId \in SessionUserInputs, expiresAt \in ExpiryInputs :
          SessionCreate(userId, expiresAt)
    \/ \E token \in Tokens : SessionFindByToken(token)

SpecSession == InitSession /\ [][NextSession]_vars

\* C24: findByToken(t) returns a session only if a stored session with
\* token t has expiresAt strictly later than the current time; from the
\* moment the clock has reached a session's expiresAt it is not returned.
C24_FindByTokenOnlyUnexpired ==
    last.op = "Session.findByToken" =>
        /\ last.val = "row" =>
              /\ \E r \in db.session :
                    /\ r.token = last.arg.s
                    /\ r.id = last.row[1].id
                    /\ r.expires_at > now
              /\ last.row[1].token = last.arg.s
        /\ (\A r \in db.session : r.token = last.arg.s => r.expires_at <= now)
              => last.val = "null"

\* the clock has reached the expiry of a stored session created earlier, and
\* findByToken with its token finds nothing
C24_Witness ==
    /\ last.op = "Session.findByToken" /\ last.val = "null"
    /\ \E r \in db.session, u \in db.user :
          /\ r.token = last.arg.s
          /\ r.user_id = Num(u.id)
          /\ r.created_at < r.expires_at
          /\ r.expires_at = now

\* C25: no operation of the User or Session store returns a value that
\* contains a user's passwordHash.
C25_NoPasswordHashReturned ==
    (last.op \in {"User.create", "User.findByUsername", "User.findById", "User.findAll",
                  "User.update", "Session.create", "Session.findByToken"})
        => /\ \A i \in 1..Len(last.row) : "password_hash" \notin DOMAIN last.row[i]
           /\ \A i \in 1..Len(last.items) : "password_hash" \notin DOMAIN last.items[i]

\* C26: deleteLead(id) leaves every chat session that referenced the lead
\* in place with lead_id null; a stored chat session with a lead_id
\* references a stored lead; createChatSession with the leadId of no stored
\* lead fails and stores no row.
C26_LeadReferenceWeak ==
    /\ [](\A r \in db.chat : r.lead_id.t = "number" => RowWithId(db.lead, r.lead_id.n) # {})
    /\ [][/\ (last.op = "none" /\ last'.op = "deleteLead") =>
                /\ last'.val = "true"
                /\ db'.chat = {IF r.lead_id = Num(last'.id)
                               THEN [r EXCEPT !.lead_id = Null] ELSE r : r \in db.chat}
                /\ {r.id : r \in db'.chat} = {r.id : r \in db.chat}
          /\ (/\ last.op = "none" /\ last'.op = "createChatSession"
              /\ Truthy(last'.arg.leadId)
              /\ \A l \in db.lead : Num(l.id) # parseInt(last'.arg.leadId)) =>
                /\ last'.val = "error"
                /\ db' = db]_vars

\* deleteLead(1) has succeeded; the chat session created with leadId 1 is
\* still stored, its lead_id null
C26_Witness ==
    /\ last.op = "deleteLead" /\ last.id = 1 /\ last.val = "true"
    /\ seq.lead >= 1 /\ RowWithId(db.lead, 1) = {}
    /\ \E r \in db.chat : r.project_id = Str("p1") /\ r.lead_id = Null

(***************************************************************************)
(* updateLead with JSON fields explicitly null.                            *)
(***************************************************************************)
LeadNullUpdates ==
    {[NoLeadUpdates EXCEPT !.metadata = Null],
     [NoLeadUpdates EXCEPT !.conversation = Null],
     [NoLeadUpdates EXCEPT !.metadata = Obj("{\"b\":2}")]}

InitJson == Init /\ focus = "leads"

NextJson ==
    \/ Return
    \/ \E data \in LeadInputs : createLead(data)
    \/ \E id \in IdInputs, u \in LeadNullUpdates : updateLead(id, u)
    \/ \E id \in IdInputs : getLeadById(id)

SpecJson == InitJson /\ [][NextJson]_vars

\* C27: after any createLead and updateLead calls, every stored lead's
\* metadata and conversation read back as non-null structured JSON values.
C27_LeadJsonNeverNull ==
    \A r \in db.lead :
        /\ Normalized(Fetched(r)).metadata.t \in {"object", "array"}
        /\ Normalized(Fetched(r)).conversation.t \in {"object", "array"}

(***************************************************************************)
(* The pool the db module holds, and the pools that exist.                 *)
(***************************************************************************)
\* the pools created and not ended
LivePools == (1..stats.created) \ stats.ended

\* C28: when connect fails because the probe fails, the module is left with
\* no pool.
C28_ProbeFailureLeavesNoPool ==
    [][\A p \in Callers :
          (pc[p] = "probing" /\ pc'[p] = "done" /\ call'[p].val = "ConnectError")
              => pool' = 0]_vars

\* C29: at most one pool exists at a time; query with no pool fails with
\* 'not connected'; close with no pool does nothing.
C29_AtMostOnePool ==
    /\ Cardinality(LivePools) <= 1
    /\ \A p \in Callers :
          (pc[p] = "done" /\ call[p].op = "query" /\ call[p].pool = 0)
              => call[p].val = "NotConnected"
    /\ \A p \in Callers :
          (pc[p] = "done" /\ call[p].op = "close" /\ call[p].pool = 0)
              => call[p].val = "closed"

(***************************************************************************)
(* listLeads among other request handlers.  The count query and the page   *)
(* query are two awaited query() calls; statements of other handlers'      *)
(* store calls run between them.  The callers of this section list; the    *)
(* other handlers are the one-caller createLead and deleteLead.            *)
(***************************************************************************)
NoListCall ==
    [op |-> "none", arg |-> NoLeadFilters, val |-> "none", total |-> -1,
     items |-> <<>>, matched |-> -1]

ListConcFilters == {NoLeadFilters, [NoLeadFilters EXCEPT !.status = Str("new")]}

\* listLeads(filters) up to its first await: the count query has run
listCount(p, f) ==
    /\ pc[p] = "idle"
    /\ pc' = [pc EXCEPT ![p] = "counted"]
    /\ call' = [call EXCEPT ![p] =
                  [NoListCall EXCEPT !.op = "listLeads", !.arg = f,
                                     !.total = CountQuery(db.lead, LeadWhere(dialect, f))]]
    /\ UNCHANGED <<sysVars, dialect, focus, now, db, seq, last, conns>>

\* the page query runs on the table as it is now; { items, total } is
\* returned.  matched: the rows that satisfy the filters at this moment.
listPage(p) ==
    LET f == call[p].arg
        q == PageQuery(dialect, LeadWhere(dialect, f), ListBounds(dialect, f))
        rows == Matching(db.lead, q.conds, q.params)
    IN  /\ pc[p] = "counted"
        /\ pc' = [pc EXCEPT ![p] = "done"]
        /\ \E ord \in OrderedDesc(rows) :
              call' = [call EXCEPT
                         ![p].val = "list",
                         ![p].items = MapSeq(Page(ord, BoundLimit(q).n, BoundOffset(q).n),
                                             LAMBDA r : Normalized(Fetched(r))),
                         ![p].matched = Cardinality(rows)]
        /\ UNCHANGED <<sysVars, dialect, focus, now, db, seq, last, conns>>

\* the handler takes the result
listTaken(p) ==
    /\ pc[p] = "done"
    /\ pc' = [pc EXCEPT ![p] = "idle"]
    /\ call' = [call EXCEPT ![p] = NoListCall]
    /\ UNCHANGED <<sysVars, dialect, focus, now, db, seq, last, conns>>

InitListConc ==
    /\ Serving
    /\ dialect \in {"pg", "mysql"}
    /\ focus = "leads"
    /\ now = 0
    /\ db = [lead |-> {}, chat |-> {}, event |-> {}, user |-> {}, session |-> {}]
    /\ seq = [lead |-> 0, chat |-> 0, event |-> 0, user |-> 0, session |-> 0]
    /\ last = NoCall
    /\ conns = <<>>
    /\ pc = [p \in Callers |-> "idle"]
    /\ call = [p \in Callers |-> NoListCall]

NextListConc ==
    \/ Return
    \/ \E data \in LeadInputs : createLead(data)
    \/ \E id \in IdInputs : deleteLead(id)
    \/ \E p \in Callers, f \in ListConcFilters : listCount(p, f)
    \/ \E p \in Callers : listPage(p)
    \/ \E p \in Callers : listTaken(p)

SpecListConc == InitListConc /\ [][NextListConc]_vars

\* C30: the result of a list call has no more items than its total, and its
\* total is the number of rows matching the filters when the page was read,
\* whatever other handlers' creates and deletes ran in between.
C30_ListConsistentUnderInterleaving ==
    \A p \in Callers :
        (pc[p] = "done" /\ call[p].val = "list") =>
            /\ Len(call[p].items) <= call[p].total
            /\ call[p].total = call[p].matched

====
